---- MODULE Spec2Model ----
(***************************************************************************)
(* Event-monitoring core of mcp-code-analyzer:                             *)
(*   - OptimizedMonitoringSystem (infrastructure/monitoring/core.py)       *)
(*   - AdvancedAnalyticsLogger   (monitoring_system.py, the legacy stack)  *)
(*   - HybridMonitoringSystem    (infrastructure/monitoring/               *)
(*                                migration_adapter.py)                    *)
(* Event identifiers are modelled by the value of the event counter and    *)
(* the suffix (_start, _error, _complete) the tracker appends to it.       *)
(***************************************************************************)
EXTENDS Integers, Sequences, FiniteSets

VARIABLES
    config,          \* MonitoringConfig of the optimized system
    events_buffer,   \* OptimizedMonitoringSystem._events_buffer (deque)
    event_counter,   \* OptimizedMonitoringSystem._event_counter
    sink_log,        \* the export_events calls made on the exporters, in order
    appended,        \* every event _events_buffer.append was called with
    ops,             \* track_operation scopes of the optimized system
    events,          \* AdvancedAnalyticsLogger.events (legacy logger)
    session_stats,   \* AdvancedAnalyticsLogger.session_stats
    metrics_store,   \* legacy PerformanceMetrics objects: is timestamp a str
    legacy_ops,      \* track_operation scopes of the legacy logger
    legacy_logger,   \* handlers on logging.getLogger("mcp_analytics") and
                     \* the outcome of AdvancedAnalyticsLogger()
    hybrid,          \* HybridMonitoringSystem flags and OLD_SYSTEM_AVAILABLE
    comparison_stats,\* HybridMonitoringSystem.comparison_stats
    coroutines,      \* coroutine objects created and never awaited
    hybrid_log,      \* the HybridMonitoringSystem.log_event calls made, in order
    hybrid_ops,      \* track_operation scopes of the hybrid
    environ,         \* os.environ: the MONITORING_* variables of the process
    global_monitoring_system, \* migration_adapter._global_monitoring_system
    constructed,     \* outcome of OptimizedMonitoringSystem.__init__
    metrics_task,    \* OptimizedMonitoringSystem._metrics_task
    metrics_buffer,  \* OptimizedMonitoringSystem._metrics_buffer (deque)
    clock,           \* time.time() and OptimizedMonitoringSystem._last_cleanup
    shutdown_pc,     \* position of the shutdown() coroutine
    sampler,         \* what the last sampling pass did
    threads,         \* position and locals of the event-loop thread (0) and
                     \* of each worker thread
    lock,            \* the thread holding OptimizedMonitoringSystem._buffer_lock, if any
    ids,             \* the identifiers generate_event_id returned to threads
    last             \* outcome of the last call made by application code

core_vars == <<config, events_buffer, event_counter, sink_log, appended, ops>>
legacy_vars == <<events, session_stats, metrics_store, legacy_ops, legacy_logger>>
hybrid_vars == <<hybrid, comparison_stats, coroutines, hybrid_log, hybrid_ops,
                 environ, global_monitoring_system>>
sampler_vars == <<constructed, metrics_task, metrics_buffer, clock, shutdown_pc,
                  sampler>>
thread_vars == <<threads, lock, ids>>
vars == <<core_vars, legacy_vars, hybrid_vars, sampler_vars, thread_vars, last>>

----------------------------------------------------------------------------
(* Bounds of the model *)

MaxCalls == 3        \* identifiers generated by generate_event_id
MaxCapacity == 2     \* largest max_events_in_memory
MaxBatch == 2        \* largest event_batch_size
MaxSinks == 2        \* largest number of registered exporters
MaxScopes == 2       \* track_operation scopes opened
MaxLegacyEvents == 3 \* direct events and scopes started on the legacy logger
MaxHybridCalls == 2  \* HybridMonitoringSystem.log_event calls
MaxMetrics == 2      \* largest maxlen of the metrics deque
MaxTicks == 2        \* hours the clock advances
MaxShutdowns == 2    \* shutdown() calls
MaxThreads == 2      \* worker threads
MaxIds == 3          \* identifiers handed to worker threads
MaxHybridScopes == 2 \* HybridMonitoringSystem.track_operation scopes opened

----------------------------------------------------------------------------
(* Defaults of the MonitoringConfig dataclass *)

DefaultRetentionHours == 24
DefaultMemoryThreshold == 85
DefaultCpuThreshold == 80
DefaultSampleInterval == 30

\* MonitoringFactory: performance_sample_interval of
\* create_development_monitoring and of create_production_monitoring
DevelopmentSampleInterval == 60
ProductionSampleInterval == 30

\* MonitoringFactory: max_events_in_memory and event_batch_size of
\* create_development_monitoring, create_production_monitoring and
\* create_minimal_monitoring
DevelopmentCapacity == 500
DevelopmentBatch == 25
ProductionCapacity == 2000
ProductionBatch == 100
MinimalCapacity == 100
MinimalBatch == 50

\* _metrics_buffer holds max_events_in_memory // 10 samples
MetricsShare == 10

\* _cleanup_old_data runs at most once in 3600 seconds; an hour of
\* timedelta(hours=...) in seconds
CleanupPeriod == 3600

\* the counter is formatted with at least four digits (:04d); the legacy
\* identifier carries the time in milliseconds
CounterWidth == 10000
MsPerSecond == 1000
SecondsPerHour == 3600

----------------------------------------------------------------------------
(* LogLevel and MonitoringEvent.should_log *)

LogLevels == {"minimal", "standard", "detailed", "verbose", "debug"}

level_hierarchy(l) ==
    CASE l = "minimal"  -> 0
      [] l = "standard" -> 1
      [] l = "detailed" -> 2
      [] l = "verbose"  -> 3
      [] l = "debug"    -> 4

\* the comparison with < in place of <=
should_log_strict(event_level, configured_level) ==
    level_hierarchy(event_level) < level_hierarchy(configured_level)

should_log(event_level, configured_level) ==
    level_hierarchy(event_level) <= level_hierarchy(configured_level)

----------------------------------------------------------------------------
(* Events of the optimized system *)

NoValue == "None"

\* thresholds of AdvancedAnalyticsLogger.health_check
LegacyCpuThreshold == 80
LegacyMemoryThreshold == 85
LegacyDiskThreshold == 90
Messages == {"x", "y"}

\* the fields of MonitoringEvent a caller can pass by keyword
Attributes == {"project_path", "file_path", "metadata", "session_id",
               "duration_ms", "error_message"}

MonitoringEvent(id, phase, type, level, msg, success, attrs) ==
    [event_id |-> id, phase |-> phase, event_type |-> type, level |-> level,
     error_message |-> msg, success |-> success, attrs |-> attrs]

----------------------------------------------------------------------------
(* deque(maxlen=n).append *)

deque_append(buf, e, maxlen) ==
    IF maxlen = 0 THEN <<>>
    ELSE IF Len(buf) >= maxlen THEN Tail(buf) \o <<e>>
    ELSE Append(buf, e)

----------------------------------------------------------------------------
(* Exporters, in registration order 1..num_exporters.  A failing           *)
(* export_events call either raises into _flush_events_batch (any          *)
(* EventExporter) or catches its own I/O error and returns False (the      *)
(* FileExporter); "failing" is the set of exporters whose export fails     *)
(* during one call of the monitoring system.                               *)

Exporters(cfg) == 1..cfg.num_exporters

\* one export_events call
ExportCall(i, batch) == [exporter |-> i, batch |-> batch]

\* State of the optimized system that log_event reads and writes; raised is
\* the exception that escapes the call, if any
Sys(buf, sinks, app, raised) ==
    [buf |-> buf, sinks |-> sinks, app |-> app, raised |-> raised]

\* the loop without the try/except: the first failing exporter ends it and
\* its exception escapes
RECURSIVE export_loop_unguarded(_, _, _, _, _)
export_loop_unguarded(st, i, n, batch, failing) ==
    IF i > n THEN st
    ELSE LET st1 == [st EXCEPT !.sinks = Append(@, ExportCall(i, batch))]
         IN IF i \in failing THEN [st1 EXCEPT !.raised = "Exception"]
            ELSE export_loop_unguarded(st1, i + 1, n, batch, failing)

\* the for loop of _flush_events_batch over the exporters i..n, with its
\* try/except Exception around every exporter.export_events call
RECURSIVE export_loop(_, _, _, _, _)
export_loop(st, i, n, batch, failing) ==
    IF i > n THEN st
    ELSE export_loop([st EXCEPT !.sinks = Append(@, ExportCall(i, batch))],
                     i + 1, n, batch, failing)

\* a flush that leaves the exported events in the buffer
flush_events_batch_keep(cfg, st, failing) ==
    IF st.buf = <<>> THEN st
    ELSE export_loop(st, 1, cfg.num_exporters, st.buf, failing)

\* _flush_events_batch
flush_events_batch(cfg, st, failing) ==
    IF st.buf = <<>> THEN st
    ELSE export_loop([st EXCEPT !.buf = <<>>], 1, cfg.num_exporters,
                     st.buf, failing)

\* log_event: verbosity filter, append to the bounded deque, flush when the
\* buffer holds event_batch_size events
log_event(cfg, st, event, failing) ==
    IF ~should_log(event.level, cfg.log_level) THEN st
    ELSE LET st1 == [st EXCEPT
                       !.buf = deque_append(st.buf, event, cfg.max_events_in_memory),
                       !.app = Append(st.app, event)]
         IN IF Len(st1.buf) >= cfg.event_batch_size
            THEN flush_events_batch(cfg, st1, failing)
            ELSE st1

----------------------------------------------------------------------------
(* Initial state: OptimizedMonitoringSystem.__init__ *)

\* MonitoringConfig; sampling is switched off (interval 0) as in
\* get_testing_config, the other fields carry the dataclass defaults
Configs ==
    [log_level : LogLevels,
     max_events_in_memory : 1..MaxCapacity,
     event_batch_size : 1..MaxBatch,
     num_exporters : 0..MaxSinks,
     metrics_retention_hours : {DefaultRetentionHours},
     performance_sample_interval : {0},
     auto_cleanup_enabled : {TRUE},
     memory_warning_threshold : {DefaultMemoryThreshold},
     cpu_warning_threshold : {DefaultCpuThreshold}]

NoOp == [pc |-> "none"]

\* the fields __init__ sets; the sampler task is created only for a
\* positive sampling interval
InitFields ==
    /\ events_buffer = <<>>
    /\ event_counter = 0
    /\ sink_log = <<>>
    /\ appended = <<>>
    /\ ops = [i \in 1..(MaxCalls + MaxScopes) |-> NoOp]
    /\ metrics_buffer = <<>>
    /\ clock = [now |-> 0, last_cleanup |-> 0]
    /\ metrics_task = IF config.performance_sample_interval > 0
                      THEN "sleeping" ELSE NoValue
    /\ shutdown_pc = [pc |-> "idle", calls |-> 0, returns |-> 0]
    /\ sampler = [pass |-> 0, failed |-> FALSE, warnings |-> 0,
                  after_failure |-> FALSE]
    /\ threads = [t \in 0..MaxThreads |->
                    [pc |-> "idle", id |-> <<>>, batch |-> <<>>, now |-> <<>>]]
    /\ lock = {}
    /\ ids = <<>>
    /\ last = [call |-> "init"]

\* deque(maxlen=n) raises ValueError for a negative n; nothing else in
\* __init__ looks at the values of the configuration
init_outcome(cfg) ==
    IF cfg.max_events_in_memory < 0 THEN "ValueError" ELSE "ok"

InitCore ==
    /\ InitFields
    /\ constructed = "ok"

\* the environments a hybrid is built for
HybridEnvironments == {"development", "production", "minimal"}

\* create_monitoring_system(environment) of core.py: the configuration the
\* MonitoringFactory method builds its system from: production for
\* "production", minimal for "minimal", development for every other name.
\* development and production register one FileExporter, minimal none
MonitoringFactory(environment) ==
    [log_level |-> IF environment = "production" THEN "standard"
                   ELSE IF environment = "minimal" THEN "minimal"
                   ELSE "verbose",
     max_events_in_memory |->
         IF environment = "production" THEN ProductionCapacity
         ELSE IF environment = "minimal" THEN MinimalCapacity
         ELSE DevelopmentCapacity,
     event_batch_size |->
         IF environment = "production" THEN ProductionBatch
         ELSE IF environment = "minimal" THEN MinimalBatch
         ELSE DevelopmentBatch,
     num_exporters |-> IF environment = "minimal" THEN 0 ELSE 1,
     metrics_retention_hours |-> DefaultRetentionHours,
     performance_sample_interval |->
         IF environment = "production" THEN ProductionSampleInterval
         ELSE IF environment = "minimal" THEN 0
         ELSE DevelopmentSampleInterval,
     auto_cleanup_enabled |-> TRUE,
     memory_warning_threshold |-> DefaultMemoryThreshold,
     cpu_warning_threshold |-> DefaultCpuThreshold]

\* HybridMonitoringSystem.__init__, self.new_system: with use_new_system
\* the system create_monitoring_system(environment) returns, built inside
\* a running event loop (the factories for development and production
\* create the sampler task, which needs one), its sampler task suspended
\* in its first sleep.  Without use_new_system new_system is None: the
\* fields of the optimized system keep their empty values, nothing reads
\* them, and constructed is None
InitNewSystem ==
    /\ \E environment \in HybridEnvironments :
         config = MonitoringFactory(IF hybrid.use_new_system THEN environment
                                    ELSE "minimal")
    /\ InitFields
    /\ constructed = IF hybrid.use_new_system THEN "ok" ELSE NoValue

\* the fields AdvancedAnalyticsLogger.__init__ sets
InitLegacyFields ==
    /\ events = <<>>
    /\ session_stats = << >>
    /\ metrics_store = <<>>
    /\ legacy_ops = <<>>

\* no AdvancedAnalyticsLogger was constructed in the process yet, the
\* logger "mcp_analytics" has no handler
NotImported == [handlers |-> 0, constructed |-> "pending"]

\* monitoring_system was imported at the second attempt: the first
\* AdvancedAnalyticsLogger() left its file handler on the logger and
\* raised, the second one found the handler and returned
Imported == [handlers |-> 1, constructed |-> "ok"]

\* the legacy logger at the start of the process
InitLegacy ==
    /\ InitLegacyFields
    /\ legacy_logger = NotImported

\* the legacy logger once `import monitoring_system` has succeeded
LegacyImported ==
    /\ InitLegacyFields
    /\ legacy_logger = Imported

\* AdvancedAnalyticsLogger(), as the module-level statement
\* analytics_logger = AdvancedAnalyticsLogger() calls it.  Without a handler
\* on the logger, __init__ adds a file handler and then evaluates
\* ColoredFormatter(), a name monitoring_system never defines: NameError,
\* the import fails and no logger object exists.  With a handler the branch
\* is skipped and the object is built
LegacyConstruct ==
    /\ legacy_logger.constructed # "ok"
    /\ IF legacy_logger.handlers = 0
       THEN /\ legacy_logger' = [handlers |-> 1, constructed |-> "NameError"]
            /\ last' = [call |-> "legacy_init", raised |-> "NameError"]
            /\ UNCHANGED <<events, session_stats, metrics_store, legacy_ops>>
       ELSE /\ legacy_logger' = [legacy_logger EXCEPT !.constructed = "ok"]
            /\ events' = <<>>
            /\ session_stats' = << >>
            /\ UNCHANGED <<metrics_store, legacy_ops>>
            /\ last' = [call |-> "legacy_init", raised |-> NoValue]
    /\ UNCHANGED <<core_vars, hybrid_vars, sampler_vars, thread_vars>>

NoComparison ==
    [events_logged_new |-> 0, events_logged_old |-> 0,
     errors_new |-> 0, errors_old |-> 0,
     performance_new |-> <<>>, performance_old |-> <<>>]

\* no MONITORING_* variable is set and get_monitoring_system was not called
NoGlobal ==
    /\ environ = [MONITORING_USE_NEW |-> NoValue, MONITORING_USE_OLD |-> NoValue,
                  MONITORING_COMPARE |-> NoValue, MONITORING_ENV |-> NoValue,
                  MONITORING_LOG_LEVEL |-> NoValue]
    /\ global_monitoring_system = <<>>

\* the hybrid is not built
NoHybrid ==
    /\ hybrid = [use_new_system |-> FALSE, use_old_system |-> FALSE,
                 compare_systems |-> FALSE, old_available |-> FALSE]
    /\ comparison_stats = NoComparison
    /\ coroutines = 0
    /\ hybrid_log = <<>>
    /\ hybrid_ops = <<>>
    /\ NoGlobal

Init ==
    /\ config \in Configs
    /\ InitCore
    /\ InitLegacy
    /\ NoHybrid

Current == Sys(events_buffer, sink_log, appended, NoValue)

Store(st) ==
    /\ events_buffer' = st.buf
    /\ sink_log' = st.sinks
    /\ appended' = st.app

\* the exporters whose export failed during a call that ended in state st
Failed(st, failing) == IF st.sinks # sink_log THEN failing ELSE {}

----------------------------------------------------------------------------
(* generate_event_id, and direct logging: every caller builds its event    *)
(* with a freshly generated id and hands it to log_event.                  *)

DirectTypes == {"PERFORMANCE_SAMPLE"}

GenerateEventId ==
    /\ event_counter < MaxCalls
    /\ last.call # "generate_event_id"
    /\ event_counter' = event_counter + 1
    /\ last' = [call |-> "generate_event_id", id |-> event_counter + 1]
    /\ UNCHANGED <<config, events_buffer, sink_log, appended, ops>>
    /\ UNCHANGED <<legacy_vars, hybrid_vars, sampler_vars, thread_vars>>

LogEvent ==
    /\ last.call = "generate_event_id"
    /\ \E level \in LogLevels, type \in DirectTypes,
          failing \in SUBSET Exporters(config) :
         LET event == MonitoringEvent(last.id, "direct", type, level,
                                      NoValue, NoValue, {})
             r == log_event(config, Current, event, failing)
         IN /\ Store(r)
            /\ last' = [call |-> "log_event", event |-> event,
                        raised |-> r.raised, failed |-> Failed(r, failing)]
    /\ UNCHANGED <<config, event_counter, ops>>
    /\ UNCHANGED <<legacy_vars, hybrid_vars, sampler_vars, thread_vars>>

\* shutdown: the remaining events are flushed
Shutdown ==
    /\ last.call # "generate_event_id"
    /\ \E failing \in SUBSET Exporters(config) :
         LET r == flush_events_batch(config, Current, failing)
         IN /\ Store(r)
            /\ last' = [call |-> "shutdown", raised |-> r.raised,
                        failed |-> Failed(r, failing)]
    /\ UNCHANGED <<config, event_counter, ops>>
    /\ UNCHANGED <<legacy_vars, hybrid_vars, sampler_vars, thread_vars>>

----------------------------------------------------------------------------
(* OptimizedMonitoringSystem.track_operation.  The scope is entered        *)
(* (everything up to the yield), the caller's block runs, and the scope is *)
(* left (the except and finally clauses).                                  *)

ScopeTypes == {"ANALYSIS_START"}

\* keyword arguments handed to track_operation and forwarded to every
\* MonitoringEvent the tracker builds
KwargsChoices == {{}, {"project_path", "session_id"}, {"metadata"},
                  {"error_message"}, {"duration_ms"}}

\* how the caller's block ends: it returns, it raises an Exception with a
\* message, or a BaseException that is no Exception (asyncio.CancelledError,
\* KeyboardInterrupt) is thrown into it
Returned == [kind |-> "return", msg |-> NoValue]
Raised(m) == [kind |-> "exception", msg |-> m]
Cancelled == [kind |-> "cancel", msg |-> NoValue]
BlockOutcomes == {Returned, Cancelled} \cup {Raised(m) : m \in Messages}

\* what leaves the scope
Nothing == [kind |-> "none", msg |-> NoValue]
TypeError == [kind |-> "TypeError", msg |-> NoValue]
KeyError == [kind |-> "KeyError", msg |-> NoValue]

\* A keyword given both explicitly and through **kwargs: the interpreter
\* (CPython 3.11) raises TypeError, and KeyError when the call is made while
\* another exception is being handled
duplicate_keyword(handling) == IF handling THEN KeyError ELSE TypeError

Leaves(outcome) == IF outcome.kind = "return" THEN Nothing ELSE outcome

OpenScopes == Cardinality({i \in DOMAIN ops : ops[i].pc # "none"})

TrackEnter ==
    /\ OpenScopes + Len(legacy_ops) < MaxScopes
    /\ last.call # "generate_event_id"
    /\ \E type \in ScopeTypes, level \in LogLevels, kwargs \in KwargsChoices,
          failing \in SUBSET Exporters(config) :
         LET id == event_counter + 1
             start_event == MonitoringEvent(id, "start", type, level,
                                            NoValue, NoValue, kwargs)
         IN /\ event_counter' = id
            /\ Store(log_event(config, Current, start_event, failing))
            /\ ops' = [ops EXCEPT ![id] =
                         [pc |-> "running", operation_type |-> type,
                          level |-> level, kwargs |-> kwargs,
                          outcome |-> Nothing, propagated |-> Nothing]]
            /\ last' = [call |-> "track_enter", id |-> id]
    /\ UNCHANGED config
    /\ UNCHANGED <<legacy_vars, hybrid_vars, sampler_vars, thread_vars>>

\* the except Exception / finally part of track_operation
track_exit(cfg, st, id, op, outcome, failing) ==
    LET caught == outcome.kind = "exception"
        error_ctor_fails == "error_message" \in op.kwargs
        error_event == MonitoringEvent(id, "error", "ANALYSIS_ERROR", "standard",
                                       outcome.msg, NoValue, op.kwargs)
        st1 == IF caught /\ ~error_ctor_fails
               THEN log_event(cfg, st, error_event, failing)
               ELSE st
        pending == IF caught /\ error_ctor_fails THEN duplicate_keyword(TRUE)
                   ELSE Leaves(outcome)
        \* metadata={'success': error_occurred is None}
        success == IF caught THEN "False" ELSE "True"
        complete_ctor_fails == op.kwargs \cap {"duration_ms", "metadata"} # {}
        complete_event == MonitoringEvent(id, "complete", "ANALYSIS_COMPLETE",
                                          op.level, NoValue, success, op.kwargs)
    IN IF complete_ctor_fails
       THEN [st |-> st1, propagated |-> duplicate_keyword(pending # Nothing)]
       ELSE [st |-> log_event(cfg, st1, complete_event, failing),
             propagated |-> pending]

TrackExit ==
    /\ last.call # "generate_event_id"
    /\ \E id \in DOMAIN ops, outcome \in BlockOutcomes,
          failing \in SUBSET Exporters(config) :
         /\ ops[id].pc = "running"
         /\ LET r == track_exit(config, Current, id, ops[id], outcome, failing)
            IN /\ Store(r.st)
               /\ ops' = [ops EXCEPT ![id] =
                            [@ EXCEPT !.pc = "done", !.outcome = outcome,
                                      !.propagated = r.propagated]]
               /\ last' = [call |-> "track_exit", id |-> id]
    /\ UNCHANGED <<config, event_counter>>
    /\ UNCHANGED <<legacy_vars, hybrid_vars, sampler_vars, thread_vars>>

----------------------------------------------------------------------------
(* The legacy stack: monitoring_system.py                                  *)

\* EventType of monitoring_system.py, by value
OldEventTypes ==
    {"analysis_start", "analysis_complete", "analysis_error",
     "file_scan_start", "file_scan_complete", "file_analysis_start",
     "file_analysis_complete", "ai_request_start", "ai_request_complete",
     "ai_request_error", "system_health_check", "performance_metric"}

\* the words of an event type's value, separated by "_"
ValueWords(v) ==
    CASE v = "analysis_start"         -> {"analysis", "start"}
      [] v = "analysis_complete"      -> {"analysis", "complete"}
      [] v = "analysis_error"         -> {"analysis", "error"}
      [] v = "file_scan_start"        -> {"file", "scan", "start"}
      [] v = "file_scan_complete"     -> {"file", "scan", "complete"}
      [] v = "file_analysis_start"    -> {"file", "analysis", "start"}
      [] v = "file_analysis_complete" -> {"file", "analysis", "complete"}
      [] v = "ai_request_start"       -> {"ai", "request", "start"}
      [] v = "ai_request_complete"    -> {"ai", "request", "complete"}
      [] v = "ai_request_error"       -> {"ai", "request", "error"}
      [] v = "system_health_check"    -> {"system", "health", "check"}
      [] v = "performance_metric"     -> {"performance", "metric"}

\* `word in event_type.value` for the words the code looks for ("error",
\* "file", "ai"): none of them occurs in a value other than as a whole word
InValue(word, v) == word \in ValueWords(v)

Sessions == {"A", "B"}

\* Optional[float] duration_ms: <<>> is None
Durations == {<<>>, <<0>>, <<5>>}
Truthy(d) == d # <<>> /\ d[1] # 0

\* performance_metrics is 0 (None) or the index of a PerformanceMetrics
\* object in metrics_store; serializable is whether json.dumps accepts the
\* event's metadata
AnalysisEvent(id, phase, type, duration, msg, success, serializable, perf, session) ==
    [event_id |-> id, phase |-> phase, event_type |-> type,
     duration_ms |-> duration, error_message |-> msg, success |-> success,
     serializable |-> serializable, performance_metrics |-> perf,
     user_session_id |-> session]

\* the fields of AnalysisEvent that log_analysis_event accepts by keyword
LegacyAttributes == {"project_path", "file_path", "duration_ms", "error_message",
                     "error_traceback", "metadata", "performance_metrics",
                     "user_session_id"}

Legacy(evs, stats, metrics) == [events |-> evs, stats |-> stats, metrics |-> metrics]

NewSession ==
    [events_count |-> 0, errors_count |-> 0, total_files_analyzed |-> 0,
     total_analysis_time_ms |-> 0]

\* the session statistics update at the end of log_event
update_session(stats, e) ==
    IF e.user_session_id = NoValue THEN stats
    ELSE LET s == e.user_session_id
             old == IF s \in DOMAIN stats THEN stats[s] ELSE NewSession
             counted == e.event_type = "file_analysis_complete"
                        /\ Truthy(e.duration_ms)
             new == [events_count |-> old.events_count + 1,
                     errors_count |-> old.errors_count
                         + (IF InValue("error", e.event_type) THEN 1 ELSE 0),
                     total_files_analyzed |-> old.total_files_analyzed
                         + (IF counted THEN 1 ELSE 0),
                     total_analysis_time_ms |-> old.total_analysis_time_ms
                         + (IF counted THEN e.duration_ms[1] ELSE 0)]
         IN [x \in DOMAIN stats \cup {s} |-> IF x = s THEN new ELSE stats[x]]

\* AdvancedAnalyticsLogger.log_event: the event is appended first; the
\* in-place conversion of performance_metrics.timestamp raises AttributeError
\* when the timestamp is a str already, json.dumps raises TypeError on
\* metadata it cannot encode; the session statistics are updated last
legacy_log_event(st, e) ==
    LET st1 == [st EXCEPT !.events = Append(@, e)]
        p == e.performance_metrics
    IN IF p # 0 /\ st.metrics[p]
       THEN [st |-> st1, raised |-> "AttributeError"]
       ELSE LET st2 == IF p = 0 THEN st1
                       ELSE [st1 EXCEPT !.metrics[p] = TRUE]
            IN IF ~e.serializable
               THEN [st |-> st2, raised |-> "TypeError"]
               ELSE [st |-> [st2 EXCEPT !.stats = update_session(@, e)],
                     raised |-> NoValue]

CurrentLegacy == Legacy(events, session_stats, metrics_store)

\* the fields of the logger object after a call on it
StoreLegacy(st) ==
    /\ events' = st.events
    /\ session_stats' = st.stats
    /\ metrics_store' = st.metrics
    /\ UNCHANGED legacy_logger

LoggedTypes == {"analysis_error", "file_analysis_complete", "performance_metric"}

\* The events application code logs directly: an error event, a
\* file-analysis-complete event with or without a duration, or a
\* performance-metric event that may carry a PerformanceMetrics object
\* (perf) and metadata json.dumps cannot encode
DirectInputs(perfs) ==
    {x \in [event_type : LoggedTypes, duration_ms : Durations,
            serializable : BOOLEAN, performance_metrics : perfs] :
        /\ x.duration_ms # <<>> => x.event_type = "file_analysis_complete"
        /\ x.performance_metrics # 0 => x.event_type = "performance_metric"
        /\ ~x.serializable => x.event_type = "performance_metric"}

\* A caller logs an event on the legacy logger: a new AnalysisEvent whose
\* id comes from generate_event_id (the length of the event list), with no
\* metrics, a new PerformanceMetrics object or one an earlier event carries;
\* or an event object that was logged before
LegacyLogEvent ==
    /\ legacy_logger.constructed = "ok"
    /\ Len(events) < MaxLegacyEvents
    /\ Len(metrics_store) < MaxLegacyEvents
    /\ \/ \E x \in DirectInputs(0..(Len(metrics_store) + 1)),
             session \in Sessions \cup {NoValue} :
            LET e == AnalysisEvent(Len(events), "direct", x.event_type,
                                   x.duration_ms, NoValue, NoValue,
                                   x.serializable, x.performance_metrics, session)
                metrics == IF x.performance_metrics = Len(metrics_store) + 1
                           THEN Append(metrics_store, FALSE)
                           ELSE metrics_store
                r == legacy_log_event(Legacy(events, session_stats, metrics), e)
            IN /\ StoreLegacy(r.st)
               /\ last' = [call |-> "legacy_log_event", raised |-> r.raised]
       \/ \E i \in 1..Len(events) :
            LET r == legacy_log_event(CurrentLegacy, events[i])
            IN /\ StoreLegacy(r.st)
               /\ last' = [call |-> "legacy_log_event", raised |-> r.raised]
    /\ UNCHANGED <<core_vars, legacy_ops, hybrid_vars, sampler_vars, thread_vars>>

\* psutil readings of get_system_metrics
LegacyCpuReadings == {LegacyCpuThreshold, LegacyCpuThreshold + 1}
LegacyMemoryReadings == {LegacyMemoryThreshold, LegacyMemoryThreshold + 1}
LegacyDiskReadings == {LegacyDiskThreshold, LegacyDiskThreshold + 1}

\* AdvancedAnalyticsLogger.health_check: the status it returns
legacy_health_status(cpu, mem, disk) ==
    LET s1 == IF cpu > LegacyCpuThreshold THEN "warning" ELSE "healthy"
        s2 == IF mem > LegacyMemoryThreshold THEN "critical" ELSE s1
    IN IF disk > LegacyDiskThreshold THEN "critical" ELSE s2

\* AdvancedAnalyticsLogger.health_check, which get_system_health() of
\* monitoring_system calls: the readings are taken into a new
\* PerformanceMetrics object, and an event of kind system_health_check that
\* carries it is logged, with metadata json.dumps accepts and no session
LegacyHealthCheck ==
    /\ legacy_logger.constructed = "ok"
    /\ Len(events) < MaxLegacyEvents
    /\ Len(metrics_store) < MaxLegacyEvents
    /\ \E cpu \in LegacyCpuReadings, mem \in LegacyMemoryReadings,
          disk \in LegacyDiskReadings :
         LET metrics == Append(metrics_store, FALSE)
             health_event == AnalysisEvent(Len(events), "direct",
                                           "system_health_check", <<>>, NoValue,
                                           NoValue, TRUE, Len(metrics), NoValue)
             r == legacy_log_event(Legacy(events, session_stats, metrics),
                                   health_event)
         IN /\ StoreLegacy(r.st)
            /\ last' = [call |-> "legacy_health_check", raised |-> r.raised,
                        status |-> legacy_health_status(cpu, mem, disk)]
    /\ UNCHANGED <<core_vars, legacy_ops, hybrid_vars, sampler_vars, thread_vars>>

----------------------------------------------------------------------------
(* AdvancedAnalyticsLogger.track_operation *)

LegacyScopeTypes == {"analysis_start", "file_scan_start", "ai_request_start"}

\* wall-clock duration measured by the tracker
Elapsed == {<<5>>}

LegacyTrackEnter ==
    /\ legacy_logger.constructed = "ok"
    /\ Len(events) < MaxLegacyEvents
    /\ Len(metrics_store) < MaxLegacyEvents
    /\ OpenScopes + Len(legacy_ops) < MaxScopes
    /\ \E type \in LegacyScopeTypes, serializable \in BOOLEAN,
          session \in Sessions \cup {NoValue} :
         LET id == Len(events)
             metrics == Append(metrics_store, FALSE)
             start_event == AnalysisEvent(id, "start", type, <<>>, NoValue,
                                          NoValue, serializable, Len(metrics),
                                          session)
             r == legacy_log_event(Legacy(events, session_stats, metrics),
                                   start_event)
         IN /\ StoreLegacy(r.st)
            /\ legacy_ops' = Append(legacy_ops,
                 [pc |-> IF r.raised = NoValue THEN "running" ELSE "not_entered",
                  event_id |-> id, operation_type |-> type,
                  serializable |-> serializable, session |-> session,
                  outcome |-> Nothing,
                  propagated |-> IF r.raised = NoValue THEN Nothing
                                 ELSE [kind |-> r.raised, msg |-> NoValue]])
            /\ last' = [call |-> "legacy_track_enter", raised |-> r.raised]
    /\ UNCHANGED <<core_vars, hybrid_vars, sampler_vars, thread_vars>>

\* the except Exception / finally part of the legacy track_operation
legacy_track_exit(st, op, outcome, elapsed) ==
    LET caught == outcome.kind = "exception"
        error_event == AnalysisEvent(op.event_id, "error", "analysis_error",
                                     <<>>, outcome.msg, NoValue,
                                     op.serializable, 0, op.session)
        r1 == IF caught THEN legacy_log_event(st, error_event)
              ELSE [st |-> st, raised |-> NoValue]
        pending == IF r1.raised # NoValue
                   THEN [kind |-> r1.raised, msg |-> NoValue]
                   ELSE Leaves(outcome)
        metrics == Append(r1.st.metrics, FALSE)
        completion_type ==
            IF InValue("file", op.operation_type) THEN "file_analysis_complete"
            ELSE IF InValue("ai", op.operation_type) THEN "ai_request_complete"
            ELSE IF caught THEN "analysis_error"
            ELSE "analysis_complete"
        end_event == AnalysisEvent(op.event_id, "complete", completion_type,
                                   elapsed, NoValue,
                                   IF caught THEN "False" ELSE "True",
                                   op.serializable, Len(metrics), op.session)
        r2 == legacy_log_event([r1.st EXCEPT !.metrics = metrics], end_event)
    IN [st |-> r2.st,
        propagated |-> IF r2.raised # NoValue
                       THEN [kind |-> r2.raised, msg |-> NoValue]
                       ELSE pending]

LegacyTrackExit ==
    /\ \E k \in 1..Len(legacy_ops), outcome \in BlockOutcomes,
          elapsed \in Elapsed :
         /\ legacy_ops[k].pc = "running"
         /\ LET r == legacy_track_exit(CurrentLegacy, legacy_ops[k], outcome,
                                       elapsed)
            IN /\ StoreLegacy(r.st)
               /\ legacy_ops' = [legacy_ops EXCEPT ![k] =
                                   [@ EXCEPT !.pc = "done",
                                             !.outcome = outcome,
                                             !.propagated = r.propagated]]
               /\ last' = [call |-> "legacy_track_exit",
                           raised |-> r.propagated.kind]
    /\ UNCHANGED <<core_vars, hybrid_vars, sampler_vars, thread_vars>>

\* clear_monitoring_logs, the DELETE /api/monitoring/events route: the event
\* list and the session statistics are emptied, and so is active_operations,
\* a dict nothing writes.  A scope whose block is running stays open and
\* logs its events, under the id it took at its start, when it is left
ClearEvents ==
    /\ legacy_logger.constructed = "ok"
    /\ events # <<>>
    /\ events' = <<>>
    /\ session_stats' = << >>
    /\ UNCHANGED <<core_vars, metrics_store, legacy_ops, legacy_logger, hybrid_vars,
                   sampler_vars, thread_vars, last>>

----------------------------------------------------------------------------
(* The hybrid: infrastructure/monitoring/migration_adapter.py              *)

\* EventType of core.py, by name
NewEventTypes ==
    {"SYSTEM_START", "SYSTEM_SHUTDOWN", "HEALTH_CHECK", "ANALYSIS_START",
     "ANALYSIS_COMPLETE", "ANALYSIS_ERROR", "FILE_SCAN_START",
     "FILE_SCAN_COMPLETE", "FILE_ANALYSIS_START", "FILE_ANALYSIS_COMPLETE",
     "AI_REQUEST_START", "AI_REQUEST_COMPLETE", "AI_REQUEST_ERROR",
     "PERFORMANCE_SAMPLE", "MEMORY_WARNING", "CPU_WARNING"}

\* the dictionary of EventTypeMapper.old_to_new, as a set of pairs
mapping ==
    {<<"analysis_start", "ANALYSIS_START">>,
     <<"analysis_complete", "ANALYSIS_COMPLETE">>,
     <<"analysis_error", "ANALYSIS_ERROR">>,
     <<"file_scan_start", "FILE_SCAN_START">>,
     <<"file_scan_complete", "FILE_SCAN_COMPLETE">>,
     <<"file_analysis_start", "FILE_ANALYSIS_START">>,
     <<"file_analysis_complete", "FILE_ANALYSIS_COMPLETE">>,
     <<"ai_request_start", "AI_REQUEST_START">>,
     <<"ai_request_complete", "AI_REQUEST_COMPLETE">>,
     <<"ai_request_error", "AI_REQUEST_ERROR">>,
     <<"system_health_check", "HEALTH_CHECK">>,
     <<"performance_metric", "PERFORMANCE_SAMPLE">>}

\* the dictionary of EventTypeMapper.new_to_old
reverse_mapping ==
    {<<"ANALYSIS_START", "analysis_start">>,
     <<"ANALYSIS_COMPLETE", "analysis_complete">>,
     <<"ANALYSIS_ERROR", "analysis_error">>,
     <<"FILE_SCAN_START", "file_scan_start">>,
     <<"FILE_SCAN_COMPLETE", "file_scan_complete">>,
     <<"FILE_ANALYSIS_START", "file_analysis_start">>,
     <<"FILE_ANALYSIS_COMPLETE", "file_analysis_complete">>,
     <<"AI_REQUEST_START", "ai_request_start">>,
     <<"AI_REQUEST_COMPLETE", "ai_request_complete">>,
     <<"AI_REQUEST_ERROR", "ai_request_error">>,
     <<"HEALTH_CHECK", "system_health_check">>,
     <<"PERFORMANCE_SAMPLE", "performance_metric">>}

\* dict.get(key, default)
dict_get(d, key, default) ==
    IF \E pair \in d : pair[1] = key
    THEN (CHOOSE pair \in d : pair[1] = key)[2]
    ELSE default

\* EventTypeMapper.old_to_new; a member of the new enumeration is no key of
\* the dictionary and gets the default
old_to_new(old_available, old_event_type) ==
    IF ~old_available THEN "ANALYSIS_START"
    ELSE dict_get(mapping, old_event_type, "ANALYSIS_START")

\* new_to_old with a default kind, as old_to_new has one
new_to_old_default(old_available, new_event_type) ==
    IF ~old_available THEN NoValue
    ELSE dict_get(reverse_mapping, new_event_type, "analysis_start")

\* EventTypeMapper.new_to_old
new_to_old(old_available, new_event_type) ==
    IF ~old_available THEN NoValue
    ELSE dict_get(reverse_mapping, new_event_type, NoValue)

\* isinstance(event_type, EventType), EventType being the one of core.py
IsNewEventType(t) == t \in NewEventTypes

\* the kinds application code logs through the hybrid; legacy kinds exist
\* only when monitoring_system can be imported
HybridKinds(old_available) ==
    {"ANALYSIS_START", "FILE_ANALYSIS_COMPLETE", "SYSTEM_START",
     "SYSTEM_SHUTDOWN", "MEMORY_WARNING", "CPU_WARNING"}
    \cup (IF old_available THEN {"analysis_error", "system_health_check"} ELSE {})

\* keyword arguments handed to the hybrid: fields of MonitoringEvent, or
\* user_session_id, a field of the legacy AnalysisEvent only
HybridKwargs == {{}, {"file_path", "session_id"}, {"user_session_id"}}

\* wall-clock cost of one mirrored call
Latencies == {1, 2}

\* the latencies to consider for a stack: one value when the call is not
\* timed, because the value is then never read
Measured(timed) == IF timed THEN Latencies ELSE {1}

\* HybridMonitoringSystem.__init__: use_old_system and OLD_SYSTEM_AVAILABLE
InitHybrid ==
    /\ \E use_new \in BOOLEAN, use_old \in BOOLEAN, compare \in BOOLEAN,
          available \in BOOLEAN :
         hybrid = [use_new_system |-> use_new,
                   use_old_system |-> use_old /\ available,
                   compare_systems |-> compare,
                   old_available |-> available]
    /\ comparison_stats = NoComparison
    /\ coroutines = 0
    /\ hybrid_log = <<>>
    /\ hybrid_ops = <<>>
    /\ NoGlobal

\* the new-system half of HybridMonitoringSystem.log_event, a try block
\* whose except Exception counts the error; generate_event_id runs before
\* MonitoringEvent rejects an unknown keyword.  escaped: an exception leaves
\* the half
hybrid_log_new(h, cfg, st, counter, stats, event_type, level, kwargs, d, failing) ==
    LET new_event_type == IF h.old_available
                          THEN old_to_new(h.old_available, event_type)
                          ELSE event_type
        id == counter + 1
        ctor_fails == ~(kwargs \subseteq Attributes)
        event == MonitoringEvent(id, "direct", new_event_type, level,
                                 NoValue, NoValue, kwargs)
    IN IF ctor_fails
       THEN [st |-> st, counter |-> id, called |-> FALSE, raised |-> TRUE,
             escaped |-> FALSE,
             stats |-> IF h.compare_systems
                       THEN [stats EXCEPT !.errors_new = @ + 1]
                       ELSE stats]
       ELSE [st |-> log_event(cfg, st, event, failing), counter |-> id,
             called |-> TRUE, raised |-> FALSE, escaped |-> FALSE,
             stats |-> IF h.compare_systems
                       THEN [stats EXCEPT
                               !.performance_new = Append(@, d),
                               !.events_logged_new = @ + 1]
                       ELSE stats]

\* the legacy half: log_analysis_event is the module-level coroutine
\* function of migration_adapter.py, which rebinds the name imported from
\* monitoring_system; calling it builds a coroutine object that is not
\* awaited, so nothing runs
hybrid_log_old(h, stats, pending, event_type, d) ==
    LET old_event_type == IF IsNewEventType(event_type)
                          THEN new_to_old(h.old_available, event_type)
                          ELSE event_type
    IN IF old_event_type = NoValue
       THEN [stats |-> stats, coroutines |-> pending, called |-> FALSE]
       ELSE [stats |-> IF h.compare_systems
                       THEN [stats EXCEPT
                               !.performance_old = Append(@, d),
                               !.events_logged_old = @ + 1]
                       ELSE stats,
             coroutines |-> pending + 1, called |-> TRUE]

\* calls made so far, as far as the state shows them
HybridCallsMade == Len(hybrid_log)

HybridLogEvent ==
    /\ HybridCallsMade < MaxHybridCalls
    /\ \E event_type \in HybridKinds(hybrid.old_available),
          level \in {"standard"}, kwargs \in HybridKwargs,
          d_new \in Measured(hybrid.use_new_system /\ hybrid.compare_systems),
          d_old \in Measured(hybrid.use_old_system /\ hybrid.compare_systems),
          failing \in SUBSET Exporters(config) :
         LET n == IF hybrid.use_new_system
                  THEN hybrid_log_new(hybrid, config, Current, event_counter,
                                      comparison_stats, event_type, level,
                                      kwargs, d_new, failing)
                  ELSE [st |-> Current, counter |-> event_counter,
                        called |-> FALSE, raised |-> FALSE, escaped |-> FALSE,
                        stats |-> comparison_stats]
             \* an exception that escapes the first half skips the second
             o == IF ~n.escaped /\ hybrid.use_old_system /\ hybrid.old_available
                  THEN hybrid_log_old(hybrid, n.stats, coroutines, event_type,
                                      d_old)
                  ELSE [stats |-> n.stats, coroutines |-> coroutines,
                        called |-> FALSE]
         IN /\ Store(n.st)
            /\ event_counter' = n.counter
            /\ comparison_stats' = o.stats
            /\ coroutines' = o.coroutines
            /\ hybrid_log' = Append(hybrid_log,
                                    [event_type |-> event_type,
                                     raised |-> n.raised])
            /\ last' = [call |-> "hybrid_log_event", event_type |-> event_type,
                        kwargs |-> kwargs, new_called |-> n.called,
                        new_raised |-> n.raised, old_called |-> o.called,
                        raised |-> IF n.escaped THEN "TypeError" ELSE NoValue]
    /\ UNCHANGED <<config, ops, hybrid, hybrid_ops, environ, global_monitoring_system>>
    /\ UNCHANGED <<legacy_vars, sampler_vars, thread_vars>>

----------------------------------------------------------------------------
(* HybridMonitoringSystem.track_operation.  The scope is entered (the code *)
(* up to the yield), the caller's block runs, and the scope is left (the   *)
(* finally clause).  track_analysis_operation is the module-level          *)
(* coroutine function of migration_adapter.py: calling it builds a         *)
(* coroutine object, which has neither __aenter__ nor __aexit__.           *)

AttributeError == [kind |-> "AttributeError", msg |-> NoValue]

\* the kinds application code tracks through the hybrid
HybridScopeKinds(old_available) ==
    {"ANALYSIS_START", "SYSTEM_START"}
    \cup (IF old_available THEN {"file_scan_start"} ELSE {})

\* the two context objects track_operation builds before its try block:
\* which stacks get one, and the kind handed to the optimized tracker
hybrid_contexts(h, operation_type) ==
    LET old_event_type == IF IsNewEventType(operation_type)
                          THEN new_to_old(h.old_available, operation_type)
                          ELSE operation_type
    IN [new_context |-> h.use_new_system,
        new_event_type |-> IF IsNewEventType(operation_type) THEN operation_type
                           ELSE old_to_new(h.old_available, operation_type),
        old_context |-> /\ h.use_old_system /\ h.old_available
                        /\ old_event_type # NoValue]

\* keyword arguments handed to the hybrid tracker: none, or one that the
\* optimized tracker passes twice to its complete event
HybridScopeKwargs == {{}, {"metadata"}}

HybridScope(pc, type, level, kwargs, new_id, outcome, propagated) ==
    [pc |-> pc, operation_type |-> type, level |-> level, kwargs |-> kwargs,
     new_id |-> new_id, outcome |-> outcome, propagated |-> propagated]

\* `async with hybrid.track_operation(...)` up to the first point where the
\* coroutine is suspended.  With a legacy context old_context.__aenter__
\* raises AttributeError before anything is awaited, the finally clause
\* raises it again at old_context.__aexit__, and the block is never run;
\* the coroutine objects built on the way (track_analysis_operation(...)
\* and, with an optimized context, its __aenter__() and __aexit__()) are
\* never awaited.  With an optimized context only, asyncio.gather makes a
\* task of its __aenter__() and the caller waits for it.  Without a context
\* the scope yields at once
HybridTrackEnter ==
    /\ Len(hybrid_ops) < MaxHybridScopes
    /\ event_counter < MaxCalls
    /\ \E operation_type \in HybridScopeKinds(hybrid.old_available),
          level \in {"standard"}, kwargs \in HybridScopeKwargs :
         LET c == hybrid_contexts(hybrid, operation_type)
         IN IF c.old_context
            THEN /\ coroutines' = coroutines + (IF c.new_context THEN 3 ELSE 1)
                 /\ hybrid_ops' = Append(hybrid_ops,
                        HybridScope("not_entered", operation_type, level, kwargs,
                                    <<>>, Nothing, AttributeError))
                 /\ last' = [call |-> "hybrid_track_enter",
                             raised |-> AttributeError.kind]
            ELSE /\ hybrid_ops' = Append(hybrid_ops,
                        HybridScope(IF c.new_context THEN "entering" ELSE "running",
                                    operation_type, level, kwargs, <<>>, Nothing,
                                    Nothing))
                 /\ last' = [call |-> "hybrid_track_enter", raised |-> NoValue]
                 /\ UNCHANGED coroutines
    /\ UNCHANGED <<core_vars, hybrid, comparison_stats, hybrid_log, environ,
                   global_monitoring_system>>
    /\ UNCHANGED <<legacy_vars, sampler_vars, thread_vars>>

\* the task of new_context.__aenter__() runs: the optimized tracker takes
\* its identifier and logs the start event, gather returns and the hybrid
\* yields to the caller's block
HybridTrackStart ==
    /\ event_counter < MaxCalls
    /\ \E k \in 1..Len(hybrid_ops), failing \in SUBSET Exporters(config) :
         /\ hybrid_ops[k].pc = "entering"
         /\ LET scope == hybrid_ops[k]
                c == hybrid_contexts(hybrid, scope.operation_type)
                id == event_counter + 1
                start_event == MonitoringEvent(id, "start", c.new_event_type,
                                               scope.level, NoValue, NoValue,
                                               scope.kwargs)
            IN /\ event_counter' = id
               /\ Store(log_event(config, Current, start_event, failing))
               /\ ops' = [ops EXCEPT ![id] =
                            [pc |-> "running", operation_type |-> c.new_event_type,
                             level |-> scope.level, kwargs |-> scope.kwargs,
                             outcome |-> Nothing, propagated |-> Nothing]]
               /\ hybrid_ops' = [hybrid_ops EXCEPT ![k] =
                                   [@ EXCEPT !.pc = "running", !.new_id = <<id>>]]
               /\ last' = [call |-> "hybrid_track_start", raised |-> NoValue]
    /\ UNCHANGED <<config, hybrid, comparison_stats, coroutines, hybrid_log,
                   environ, global_monitoring_system>>
    /\ UNCHANGED <<legacy_vars, sampler_vars, thread_vars>>

\* the finally clause of the hybrid: new_context.__aexit__(None, None, None)
\* resumes the optimized tracker as after a block that returned, whatever
\* left the block; asyncio.gather(return_exceptions=True) keeps what the
\* tracker raises; what left the block then leaves the hybrid scope
hybrid_track_exit(cfg, st, scope, op, outcome, failing) ==
    IF scope.new_id = <<>>
    THEN [st |-> st, seen |-> Nothing, inner |-> Nothing,
          propagated |-> Leaves(outcome)]
    ELSE LET r == track_exit(cfg, st, scope.new_id[1], op, Returned, failing)
         IN [st |-> r.st, seen |-> Returned, inner |-> r.propagated,
             propagated |-> Leaves(outcome)]

\* the caller's block ends.  With an optimized context the finally clause
\* makes a task of new_context.__aexit__(None, None, None) and waits for
\* it; without a context the scope is left at once
HybridTrackExit ==
    /\ \E k \in 1..Len(hybrid_ops), outcome \in BlockOutcomes :
         /\ hybrid_ops[k].pc = "running"
         /\ IF hybrid_ops[k].new_id = <<>>
            THEN LET r == hybrid_track_exit(config, Current, hybrid_ops[k], NoOp,
                                            outcome, {})
                 IN /\ hybrid_ops' = [hybrid_ops EXCEPT ![k] =
                                        [@ EXCEPT !.pc = "done",
                                                  !.outcome = outcome,
                                                  !.propagated = r.propagated]]
                    /\ last' = [call |-> "hybrid_track_exit",
                                raised |-> r.propagated.kind]
            ELSE /\ hybrid_ops' = [hybrid_ops EXCEPT ![k] =
                                     [@ EXCEPT !.pc = "exiting",
                                               !.outcome = outcome]]
                 /\ last' = [call |-> "hybrid_track_exit", raised |-> NoValue]
    /\ UNCHANGED <<core_vars, hybrid, comparison_stats, coroutines, hybrid_log,
                   environ, global_monitoring_system>>
    /\ UNCHANGED <<legacy_vars, sampler_vars, thread_vars>>

\* the task of new_context.__aexit__(None, None, None) runs: the optimized
\* tracker logs its complete event, gather returns and the hybrid scope is
\* left by what left the block
HybridTrackComplete ==
    /\ \E k \in 1..Len(hybrid_ops), failing \in SUBSET Exporters(config) :
         /\ hybrid_ops[k].pc = "exiting"
         /\ LET scope == hybrid_ops[k]
                id == scope.new_id[1]
                r == hybrid_track_exit(config, Current, scope, ops[id],
                                       scope.outcome, failing)
            IN /\ Store(r.st)
               /\ ops' = [ops EXCEPT ![id] =
                            [@ EXCEPT !.pc = "done", !.outcome = r.seen,
                                      !.propagated = r.inner]]
               /\ hybrid_ops' = [hybrid_ops EXCEPT ![k] =
                                   [@ EXCEPT !.pc = "done",
                                             !.propagated = r.propagated]]
               /\ last' = [call |-> "hybrid_track_complete",
                           raised |-> r.propagated.kind]
    /\ UNCHANGED <<config, event_counter, hybrid, comparison_stats, coroutines,
                   hybrid_log, environ, global_monitoring_system>>
    /\ UNCHANGED <<legacy_vars, sampler_vars, thread_vars>>

\* another task of the event loop logs on the optimized system of the
\* hybrid: generate_event_id() and log_event(event) with nothing awaited
\* in between
HybridDirectLog ==
    /\ hybrid.use_new_system
    /\ event_counter < MaxCalls
    /\ \E failing \in SUBSET Exporters(config) :
         LET id == event_counter + 1
             event == MonitoringEvent(id, "direct", "PERFORMANCE_SAMPLE",
                                      "standard", NoValue, NoValue, {})
             r == log_event(config, Current, event, failing)
         IN /\ event_counter' = id
            /\ Store(r)
            /\ last' = [call |-> "hybrid_direct_log", raised |-> r.raised]
    /\ UNCHANGED <<config, ops>>
    /\ UNCHANGED <<legacy_vars, hybrid_vars, sampler_vars, thread_vars>>

\* scopes tracked through the hybrid, and another task that logs on the
\* optimized system directly
NextHybridTrack ==
    \/ HybridTrackEnter
    \/ HybridTrackStart
    \/ HybridTrackExit
    \/ HybridTrackComplete
    \/ HybridDirectLog

----------------------------------------------------------------------------
(* HybridMonitoringSystem._generate_comparison_report.  The report's       *)
(* numbers are quotients of counters and of sums of latencies; they are    *)
(* kept as exact fractions num / den with den > 0.                         *)

Ratio(num, den) == [num |-> num, den |-> den]
RatioLess(a, b) == a.num * b.den < b.num * a.den
RatioEq(a, b) == a.num * b.den = b.num * a.den
RatioSub(a, b) == Ratio(a.num * b.den - b.num * a.den, a.den * b.den)
RatioDiv(a, b) == Ratio(a.num * b.den, a.den * b.num)
RatioMax(a, b) == IF RatioLess(a, b) THEN b ELSE a
RatioTimes(a, k) == Ratio(a.num * k, a.den)

Max(a, b) == IF a > b THEN a ELSE b

RECURSIVE Sum(_)
Sum(seq) == IF seq = <<>> THEN 0 ELSE Head(seq) + Sum(Tail(seq))

\* sum(perf) / len(perf) if perf else 0
average(perf) == IF perf # <<>> THEN Ratio(Sum(perf), Len(perf)) ELSE Ratio(0, 1)

\* 'new' if avg_perf_new < avg_perf_old else 'old'
faster_system(avg_perf_new, avg_perf_old) ==
    IF RatioLess(avg_perf_new, avg_perf_old) THEN "new" ELSE "old"

\* error rates computed over all calls instead of over the logged events
error_rate_of_calls(errors, events_logged) ==
    Ratio(errors * 100, Max(events_logged + errors, 1))

\* (errors / max(events_logged, 1)) * 100
error_rate(errors, events_logged) == Ratio(errors * 100, Max(events_logged, 1))

generate_comparison_report(stats) ==
    LET avg_perf_new == average(stats.performance_new)
        avg_perf_old == average(stats.performance_old)
    IN [events_comparison |->
          [new_system |-> stats.events_logged_new,
           old_system |-> stats.events_logged_old],
        error_rates |->
          [new_system |-> error_rate(stats.errors_new, stats.events_logged_new),
           old_system |-> error_rate(stats.errors_old, stats.events_logged_old)],
        average_performance_ms |->
          [new_system |-> RatioTimes(avg_perf_new, 1000),
           old_system |-> RatioTimes(avg_perf_old, 1000)],
        performance_improvement |->
          [percentage |->
             RatioTimes(RatioDiv(RatioSub(avg_perf_old, avg_perf_new),
                                 RatioMax(avg_perf_old, Ratio(1, 1000))), 100),
           faster_system |-> faster_system(avg_perf_new, avg_perf_old)]]

----------------------------------------------------------------------------
(* Specifications *)

\* the logging core: direct events, batching, shutdown
Next ==
    \/ GenerateEventId
    \/ LogEvent
    \/ Shutdown

Spec == Init /\ [][Next]_vars

\* a sequence of log_event calls from the initial, empty buffer
NextLog ==
    \/ GenerateEventId
    \/ LogEvent

SpecLog == Init /\ [][NextLog]_vars

\* the two operation trackers, on one buffer configuration per verbosity
\* level
InitTrack ==
    /\ config \in {c \in Configs : /\ c.max_events_in_memory = MaxCapacity
                                   /\ c.event_batch_size = MaxBatch
                                   /\ c.num_exporters = 0}
    /\ InitCore
    /\ LegacyImported
    /\ NoHybrid

NextTrack ==
    \/ TrackEnter
    \/ TrackExit
    \/ LegacyTrackEnter
    \/ LegacyTrackExit

SpecTrack == InitTrack /\ [][NextTrack]_vars

\* track_operation scopes of concurrent tasks interleaved with direct
\* log_event calls, on a system with one exporter
InitScopes ==
    /\ config \in {c \in Configs : /\ c.log_level = "standard"
                                   /\ c.max_events_in_memory = MaxCapacity
                                   /\ c.event_batch_size = MaxBatch
                                   /\ c.num_exporters = 1}
    /\ InitCore
    /\ InitLegacy
    /\ NoHybrid

\* at most MaxCalls identifiers are generated, by scopes and direct calls
NextScopes ==
    \/ event_counter < MaxCalls /\ TrackEnter
    \/ TrackExit
    \/ GenerateEventId
    \/ LogEvent

SpecScopes == InitScopes /\ [][NextScopes]_vars

\* the legacy logger
InitLegacyOnly ==
    /\ config \in {c \in Configs : /\ c.log_level = "standard"
                                   /\ c.max_events_in_memory = MaxCapacity
                                   /\ c.event_batch_size = MaxBatch
                                   /\ c.num_exporters = 0}
    /\ InitCore
    /\ InitLegacy
    /\ NoHybrid

NextLegacy ==
    \/ LegacyConstruct
    \/ LegacyLogEvent
    \/ LegacyHealthCheck
    \/ LegacyTrackEnter
    \/ LegacyTrackExit

SpecLegacy == InitLegacyOnly /\ [][NextLegacy]_vars

\* the legacy tracker while the DELETE /api/monitoring/events route clears
\* the logger
NextLegacyTrack ==
    \/ LegacyConstruct
    \/ LegacyTrackEnter
    \/ LegacyTrackExit
    \/ ClearEvents

SpecLegacyTrack == InitLegacyOnly /\ [][NextLegacyTrack]_vars

\* the hybrid over both stacks, the optimized one built by the factory.
\* The calls on the hybrid are made within the first sampling interval of
\* its optimized system (60 or 30 seconds), while the sampler task is in
\* its first sleep
InitHybridOnly ==
    /\ InitHybrid
    /\ InitNewSystem
    /\ InitLegacyFields
    /\ legacy_logger = IF hybrid.old_available THEN Imported ELSE NotImported

NextHybrid ==
    \/ HybridLogEvent

SpecHybrid == InitHybridOnly /\ [][NextHybrid]_vars

\* the hybrid whose scopes are tracked, within the first sampling interval
InitHybridTrack ==
    /\ InitHybrid
    /\ InitNewSystem
    /\ InitLegacyFields
    /\ legacy_logger = IF hybrid.old_available THEN Imported ELSE NotImported

SpecHybridTrack == InitHybridTrack /\ [][NextHybridTrack]_vars

----------------------------------------------------------------------------
(* The background sampler: the metrics_collector task created by           *)
(* _start_metrics_collection, _collect_performance_metrics,                *)
(* _cleanup_old_data, and shutdown().  The task is suspended only in       *)
(* asyncio.sleep: log_event, _flush_events_batch and _cleanup_old_data     *)
(* contain no await that yields to the event loop, so one pass runs        *)
(* without interleaving.  The clock counts seconds and advances by hours.  *)

CpuReadings == {DefaultCpuThreshold, DefaultCpuThreshold + 1}
MemoryReadings == {DefaultMemoryThreshold, DefaultMemoryThreshold + 1}

\* while metrics and metrics[0].timestamp < cutoff_time: popleft()
RECURSIVE popleft_while_older(_, _)
popleft_while_older(metrics, cutoff_time) ==
    IF metrics # <<>> /\ Head(metrics) < cutoff_time
    THEN popleft_while_older(Tail(metrics), cutoff_time)
    ELSE metrics

\* a cleanup without the once-per-hour test
cleanup_old_data_every_call(cfg, metrics, clk) ==
    [metrics |-> popleft_while_older(
                   metrics,
                   clk.now - cfg.metrics_retention_hours * SecondsPerHour),
     last_cleanup |-> clk.now]

\* _cleanup_old_data
cleanup_old_data(cfg, metrics, clk) ==
    IF clk.now - clk.last_cleanup < CleanupPeriod
    THEN [metrics |-> metrics, last_cleanup |-> clk.last_cleanup]
    ELSE [metrics |-> popleft_while_older(
                        metrics,
                        clk.now - cfg.metrics_retention_hours * SecondsPerHour),
          last_cleanup |-> clk.now]

\* a threshold warning: the event gets a fresh id and goes through log_event
warning_event(cfg, p, reading, threshold, type, failing) ==
    IF reading > threshold
    THEN [st |-> log_event(cfg, p.st,
                           MonitoringEvent(p.counter + 1, "direct", type,
                                           "standard", NoValue, NoValue, {}),
                           failing),
          counter |-> p.counter + 1]
    ELSE p

\* _collect_performance_metrics: every exception is caught inside the pass.
\* p is the buffer state and the event counter, reading what psutil
\* returned (or that it raised)
collect_performance_metrics(cfg, p, metrics, clk, reading, failing) ==
    IF reading.fails
    THEN [st |-> p.st, counter |-> p.counter, metrics |-> metrics,
          last_cleanup |-> clk.last_cleanup, caught |-> TRUE, raised |-> NoValue]
    ELSE LET p1 == warning_event(cfg, p, reading.cpu_percent,
                                 cfg.cpu_warning_threshold,
                                 "CPU_WARNING", failing)
             p2 == warning_event(cfg, p1, reading.memory_percent,
                                 cfg.memory_warning_threshold,
                                 "MEMORY_WARNING", failing)
             stored == deque_append(metrics, clk.now,
                                    cfg.max_events_in_memory \div MetricsShare)
             c == IF cfg.auto_cleanup_enabled
                  THEN cleanup_old_data(cfg, stored, clk)
                  ELSE [metrics |-> stored, last_cleanup |-> clk.last_cleanup]
         IN [st |-> p2.st, counter |-> p2.counter, metrics |-> c.metrics,
             last_cleanup |-> c.last_cleanup, caught |-> FALSE,
             raised |-> NoValue]

\* a collector that makes one pass and returns
metrics_collector_once(cfg, p, metrics, clk, reading, failing) ==
    LET r == collect_performance_metrics(cfg, p, metrics, clk, reading, failing)
    IN [pass |-> r, task |-> "finished"]

\* one iteration of metrics_collector's `while True`, from the end of the
\* sleep to the next sleep; an exception that left the pass would be caught
\* by the loop's own try/except Exception
metrics_collector(cfg, p, metrics, clk, reading, failing) ==
    LET r == collect_performance_metrics(cfg, p, metrics, clk, reading, failing)
    IN [pass |-> [r EXCEPT !.raised = NoValue], task |-> "sleeping"]

\* number of warnings a pass with these readings emits
Warnings(cfg, read_fails, cpu_percent, memory_percent) ==
    IF read_fails THEN 0
    ELSE (IF cpu_percent > cfg.cpu_warning_threshold THEN 1 ELSE 0)
         + (IF memory_percent > cfg.memory_warning_threshold THEN 1 ELSE 0)

\* the sleep of the sampler task ends and the task makes a sampling pass
SamplePass ==
    /\ metrics_task = "sleeping"
    /\ \E read_fails \in BOOLEAN, cpu_percent \in CpuReadings,
          memory_percent \in MemoryReadings,
          failing \in SUBSET Exporters(config) :
         /\ event_counter + Warnings(config, read_fails, cpu_percent,
                                     memory_percent) <= MaxCalls
         /\ LET reading == [fails |-> read_fails, cpu_percent |-> cpu_percent,
                            memory_percent |-> memory_percent]
                r == metrics_collector(config,
                                       [st |-> Current, counter |-> event_counter],
                                       metrics_buffer, clock, reading, failing)
            IN /\ Store(r.pass.st)
               /\ event_counter' = r.pass.counter
               /\ metrics_buffer' = r.pass.metrics
               /\ clock' = [clock EXCEPT !.last_cleanup = r.pass.last_cleanup]
               /\ metrics_task' = r.task
               /\ sampler' = [pass |-> 1 - sampler.pass,
                              failed |-> r.pass.caught,
                              warnings |-> r.pass.counter - event_counter,
                              after_failure |-> sampler.failed]
    /\ UNCHANGED <<config, ops, last, constructed, shutdown_pc>>
    /\ UNCHANGED <<legacy_vars, hybrid_vars, thread_vars>>

\* an hour passes
Tick ==
    /\ clock.now < MaxTicks * SecondsPerHour
    /\ clock' = [clock EXCEPT !.now = @ + SecondsPerHour]
    /\ UNCHANGED <<core_vars, legacy_vars, hybrid_vars, thread_vars, last>>
    /\ UNCHANGED <<constructed, metrics_task, metrics_buffer, shutdown_pc, sampler>>

\* a cancel() that requests nothing
cancel_ignored(task) == task

\* Task.cancel(): a task that is not done is asked to stop
cancel(task) == IF task \in {"sleeping", "cancelling"} THEN "cancelling" ELSE task

\* shutdown() up to the point where it is suspended or returns: a task that
\* is still running is cancelled and awaited; without a task, or with a
\* task that is done (awaiting it raises CancelledError at once, which is
\* swallowed), the remaining events are flushed and the call returns
ShutdownCall ==
    /\ shutdown_pc.pc # "awaiting"
    /\ shutdown_pc.calls < MaxShutdowns
    /\ IF metrics_task \in {"sleeping", "cancelling"}
       THEN /\ metrics_task' = cancel(metrics_task)
            /\ shutdown_pc' = [pc |-> "awaiting", calls |-> shutdown_pc.calls + 1,
                               returns |-> shutdown_pc.returns]
            /\ UNCHANGED <<events_buffer, sink_log, appended, last>>
       ELSE \E failing \in SUBSET Exporters(config) :
              LET r == flush_events_batch(config, Current, failing)
              IN /\ Store(r)
                 /\ last' = [call |-> "shutdown", raised |-> r.raised,
                             failed |-> Failed(r, failing)]
                 /\ shutdown_pc' = [pc |-> "returned",
                                    calls |-> shutdown_pc.calls + 1,
                                    returns |-> shutdown_pc.returns + 1]
                 /\ UNCHANGED metrics_task
    /\ UNCHANGED <<config, event_counter, ops>>
    /\ UNCHANGED <<constructed, metrics_buffer, clock, sampler>>
    /\ UNCHANGED <<legacy_vars, hybrid_vars, thread_vars>>

\* the CancelledError is thrown into the sampler at its sleep; it is not an
\* Exception, neither try/except catches it, and the task ends cancelled
SamplerCancelled ==
    /\ metrics_task = "cancelling"
    /\ metrics_task' = "cancelled"
    /\ UNCHANGED <<core_vars, legacy_vars, hybrid_vars, thread_vars, last>>
    /\ UNCHANGED <<constructed, metrics_buffer, clock, shutdown_pc, sampler>>

\* shutdown() resumes when the awaited task is done, and flushes
ShutdownResume ==
    /\ shutdown_pc.pc = "awaiting"
    /\ metrics_task \in {"cancelled", "finished"}
    /\ \E failing \in SUBSET Exporters(config) :
         LET r == flush_events_batch(config, Current, failing)
         IN /\ Store(r)
            /\ last' = [call |-> "shutdown", raised |-> r.raised,
                        failed |-> Failed(r, failing)]
    /\ shutdown_pc' = [pc |-> "returned", calls |-> shutdown_pc.calls,
                       returns |-> shutdown_pc.returns + 1]
    /\ UNCHANGED <<config, event_counter, ops>>
    /\ UNCHANGED <<constructed, metrics_task, metrics_buffer, clock, sampler>>
    /\ UNCHANGED <<legacy_vars, hybrid_vars, thread_vars>>

SamplerConfigs ==
    [log_level : {"standard"},
     max_events_in_memory : {MetricsShare * MaxMetrics},
     event_batch_size : {MaxBatch},
     num_exporters : {1},
     metrics_retention_hours : {1},
     performance_sample_interval : {0, DefaultSampleInterval},
     auto_cleanup_enabled : BOOLEAN,
     memory_warning_threshold : {DefaultMemoryThreshold},
     cpu_warning_threshold : {DefaultCpuThreshold}]

InitSampler ==
    /\ config \in SamplerConfigs
    /\ InitCore
    /\ InitLegacy
    /\ NoHybrid

NextSampler ==
    \/ SamplePass
    \/ Tick
    \/ ShutdownCall
    \/ SamplerCancelled
    \/ ShutdownResume

SpecSampler == InitSampler /\ [][NextSampler]_vars

\* the event loop runs a task whose sleep has ended, delivers a requested
\* cancellation, and resumes a coroutine whose awaited task is done
SpecSamplerLive ==
    /\ InitSampler
    /\ [][NextSampler]_vars
    /\ WF_vars(SamplePass)
    /\ WF_vars(SamplerCancelled)
    /\ WF_vars(ShutdownResume)

\* One sampling pass on every verbosity level, on a system whose metrics
\* deque has room (capacity MetricsShare * MaxMetrics) or none (capacities
\* below MetricsShare)
SamplePassConfigs ==
    [log_level : LogLevels,
     max_events_in_memory : {MaxCapacity, MetricsShare * MaxMetrics},
     event_batch_size : {MaxBatch},
     num_exporters : {1},
     metrics_retention_hours : {1},
     performance_sample_interval : {0},
     auto_cleanup_enabled : BOOLEAN,
     memory_warning_threshold : {DefaultMemoryThreshold},
     cpu_warning_threshold : {DefaultCpuThreshold}]

\* await system._collect_performance_metrics(): one pass, made by the
\* sampler task or by a caller; what psutil returned is kept in `last`
CollectPerformanceMetrics ==
    /\ \E read_fails \in BOOLEAN, cpu_percent \in CpuReadings,
          memory_percent \in MemoryReadings,
          failing \in SUBSET Exporters(config) :
         /\ event_counter + Warnings(config, read_fails, cpu_percent,
                                     memory_percent) <= MaxCalls
         /\ LET reading == [fails |-> read_fails, cpu_percent |-> cpu_percent,
                            memory_percent |-> memory_percent]
                r == collect_performance_metrics(
                         config, [st |-> Current, counter |-> event_counter],
                         metrics_buffer, clock, reading, failing)
            IN /\ Store(r.st)
               /\ event_counter' = r.counter
               /\ metrics_buffer' = r.metrics
               /\ clock' = [clock EXCEPT !.last_cleanup = r.last_cleanup]
               /\ last' = [call |-> "collect_performance_metrics",
                           reading |-> reading, raised |-> r.raised,
                           pass |-> IF last.call = "collect_performance_metrics"
                                    THEN 1 - last.pass ELSE 0]
    /\ UNCHANGED <<config, ops, constructed, metrics_task, shutdown_pc, sampler>>
    /\ UNCHANGED <<legacy_vars, hybrid_vars, thread_vars>>

InitSamplePass ==
    /\ config \in SamplePassConfigs
    /\ InitCore
    /\ InitLegacy
    /\ NoHybrid

NextSamplePass ==
    \/ CollectPerformanceMetrics
    \/ Tick

SpecSamplePass == InitSamplePass /\ [][NextSamplePass]_vars

\* await system._cleanup_old_data(), called by itself
CleanupOldData ==
    /\ LET r == cleanup_old_data(config, metrics_buffer, clock)
       IN /\ metrics_buffer' = r.metrics
          /\ clock' = [clock EXCEPT !.last_cleanup = r.last_cleanup]
          /\ last' = [call |-> "cleanup_old_data",
                      removed |-> Len(metrics_buffer) - Len(r.metrics),
                      pass |-> IF last.call = "cleanup_old_data"
                               THEN 1 - last.pass ELSE 0]
    /\ UNCHANGED <<core_vars, legacy_vars, hybrid_vars, thread_vars>>
    /\ UNCHANGED <<constructed, metrics_task, shutdown_pc, sampler>>

\* half an hour passes
HalfHour ==
    /\ clock.now < MaxTicks * SecondsPerHour
    /\ clock' = [clock EXCEPT !.now = @ + SecondsPerHour \div 2]
    /\ UNCHANGED <<core_vars, legacy_vars, hybrid_vars, thread_vars, last>>
    /\ UNCHANGED <<constructed, metrics_task, metrics_buffer, shutdown_pc, sampler>>

\* sampling passes and cleanup calls half an hour or more apart, on a
\* system that records the warnings and keeps MaxMetrics samples
InitCleanup ==
    /\ config \in {c \in SamplePassConfigs :
                     /\ c.log_level = "standard"
                     /\ c.max_events_in_memory = MetricsShare * MaxMetrics}
    /\ InitCore
    /\ InitLegacy
    /\ NoHybrid

NextCleanup ==
    \/ CollectPerformanceMetrics
    \/ CleanupOldData
    \/ HalfHour

SpecCleanup == InitCleanup /\ [][NextCleanup]_vars

\* get_analytics_summary: the two sizes it reports
get_analytics_summary(buf, metrics) ==
    [events_in_buffer |-> Len(buf), metrics_in_buffer |-> Len(metrics)]

GetAnalyticsSummary ==
    /\ last.call \notin {"generate_event_id", "get_analytics_summary"}
    /\ last' = [call |-> "get_analytics_summary",
                summary |-> get_analytics_summary(events_buffer, metrics_buffer)]
    /\ UNCHANGED <<core_vars, legacy_vars, hybrid_vars, sampler_vars, thread_vars>>

\* buffer sizes __init__ accepts: capacities from 0, below, at and above
\* the batch size, a capacity whose metrics deque holds MaxMetrics samples,
\* and batch sizes from -1
BufferConfigs ==
    [log_level : {"standard"},
     max_events_in_memory : (0..MaxCapacity) \cup {MetricsShare * MaxMetrics},
     event_batch_size : -1..(MaxBatch + 1),
     num_exporters : {1},
     metrics_retention_hours : {DefaultRetentionHours},
     performance_sample_interval : {0},
     auto_cleanup_enabled : {TRUE},
     memory_warning_threshold : {DefaultMemoryThreshold},
     cpu_warning_threshold : {DefaultCpuThreshold}]

InitBuffers ==
    /\ config \in BufferConfigs
    /\ InitCore
    /\ InitLegacy
    /\ NoHybrid

NextBuffers ==
    \/ GenerateEventId
    \/ LogEvent
    \/ CollectPerformanceMetrics
    \/ GetAnalyticsSummary
    \/ Tick

SpecBuffers == InitBuffers /\ [][NextBuffers]_vars

----------------------------------------------------------------------------
(* generate_event_id called from worker threads.  The optimized system     *)
(* increments _event_counter, calls time.time() and reads the counter      *)
(* again when it formats the identifier; the interpreter can switch        *)
(* threads when time.time() returns, so the time is the one of the         *)
(* increment and the counter the one of the formatting.  The legacy logger *)
(* calls time.time() and then len(self.events), with the same switch point *)
(* between the two; its event list is emptied by the DELETE                *)
(* /api/monitoring/events route.                                           *)

Threads == 1..MaxThreads

\* f"evt_{int(time.time())}{self._event_counter:04d}", as the number its
\* digits spell (counters below CounterWidth)
format_event_id(now, counter) == now * CounterWidth + counter

\* f"evt_{int(time.time() * 1000)}_{len(self.events)}"
legacy_event_id(now, evs) == [ms |-> now * MsPerSecond, len |-> Len(evs)]

\* id is <<>> or holds the identifier the thread generated
Goto(t, pc, id) ==
    [threads EXCEPT ![t] = [pc |-> pc, id |-> id, batch |-> <<>>, now |-> <<>>]]

\* the thread has called time.time() and holds what it returned
GotoWithTime(t, pc, now) ==
    [threads EXCEPT ![t] = [pc |-> pc, id |-> <<>>, batch |-> <<>>,
                            now |-> <<now>>]]

\* self._event_counter += 1, and the call of time.time() that follows
GenIncrement(t) ==
    /\ threads[t].pc = "idle"
    /\ event_counter < MaxCalls
    /\ event_counter' = event_counter + 1
    /\ threads' = GotoWithTime(t, "format", clock.now)
    /\ UNCHANGED <<config, events_buffer, sink_log, appended, ops>>
    /\ UNCHANGED <<lock, ids, last>>
    /\ UNCHANGED <<legacy_vars, hybrid_vars, sampler_vars>>

\* return f"evt_...": int() of the time read, then self._event_counter
GenFormat(t) ==
    /\ threads[t].pc = "format"
    /\ LET id == format_event_id(threads[t].now[1], event_counter)
       IN /\ ids' = Append(ids, [thread |-> t, system |-> "optimized", id |-> id])
          /\ threads' = Goto(t, "idle", <<id>>)
    /\ UNCHANGED <<core_vars, legacy_vars, hybrid_vars, sampler_vars, lock, last>>

\* identifiers asked for and not yet returned
PendingIds == Cardinality({t \in Threads : threads[t].pc = "legacy_len"})

\* AdvancedAnalyticsLogger.generate_event_id: time.time() is called
LegacyReadClock(t) ==
    /\ legacy_logger.constructed = "ok"
    /\ threads[t].pc = "idle"
    /\ Len(ids) + PendingIds < MaxIds
    /\ threads' = GotoWithTime(t, "legacy_len", clock.now)
    /\ UNCHANGED <<core_vars, legacy_vars, hybrid_vars, sampler_vars, lock, ids,
                   last>>

\* AdvancedAnalyticsLogger.generate_event_id: len(self.events) is read and
\* the identifier returned
LegacyGenerateEventId(t) ==
    /\ threads[t].pc = "legacy_len"
    /\ LET id == legacy_event_id(threads[t].now[1], events)
       IN /\ ids' = Append(ids, [thread |-> t, system |-> "legacy", id |-> id])
          /\ threads' = Goto(t, "legacy_log", <<id>>)
    /\ UNCHANGED <<core_vars, legacy_vars, hybrid_vars, sampler_vars, lock, last>>

\* the thread logs an event with the identifier it generated
LegacyThreadLog(t) ==
    /\ threads[t].pc = "legacy_log"
    /\ LET e == AnalysisEvent(threads[t].id[1], "direct", "analysis_start", <<>>,
                              NoValue, NoValue, TRUE, 0, NoValue)
           r == legacy_log_event(CurrentLegacy, e)
       IN StoreLegacy(r.st)
    /\ threads' = Goto(t, "idle", <<>>)
    /\ UNCHANGED <<core_vars, legacy_ops, hybrid_vars, sampler_vars, lock, ids, last>>

InitIds ==
    /\ config \in {c \in Configs : /\ c.log_level = "standard"
                                   /\ c.max_events_in_memory = MaxCapacity
                                   /\ c.event_batch_size = MaxBatch
                                   /\ c.num_exporters = 1}
    /\ InitCore
    /\ LegacyImported
    /\ NoHybrid

NextIds ==
    \/ \E t \in Threads : GenIncrement(t)
    \/ \E t \in Threads : GenFormat(t)
    \/ \E t \in Threads : LegacyReadClock(t)
    \/ \E t \in Threads : LegacyGenerateEventId(t)
    \/ \E t \in Threads : LegacyThreadLog(t)
    \/ ClearEvents
    \/ Tick

SpecIds == InitIds /\ [][NextIds]_vars

----------------------------------------------------------------------------
(* log_event called from worker threads while the event loop thread runs   *)
(* shutdown().  log_event takes _buffer_lock for its append and the flush  *)
(* it triggers; shutdown() calls _flush_events_batch without the lock.     *)
(* _flush_events_batch copies the buffer, clears it and exports the copy;  *)
(* a thread can be preempted between these calls.                          *)

LoopThread == 0

\* with self._buffer_lock: (log_event, the event passes the verbosity filter)
ThreadLogAcquire(t) ==
    /\ threads[t].pc = "idle"
    /\ threads[t].id # <<>>
    /\ lock = {}
    /\ lock' = {t}
    /\ threads' = [threads EXCEPT ![t].pc = "append"]
    /\ UNCHANGED <<core_vars, legacy_vars, hybrid_vars, sampler_vars, ids, last>>

\* self._events_buffer.append(event) and the test of the batch size
ThreadLogAppend(t) ==
    /\ threads[t].pc = "append"
    /\ LET event == MonitoringEvent(threads[t].id[1], "direct", "PERFORMANCE_SAMPLE",
                                    "standard", NoValue, NoValue, {})
           buf == deque_append(events_buffer, event, config.max_events_in_memory)
       IN /\ events_buffer' = buf
          /\ appended' = Append(appended, event)
          /\ IF Len(buf) >= config.event_batch_size
             THEN /\ threads' = Goto(t, "flush", <<>>)
                  /\ UNCHANGED lock
             ELSE /\ threads' = Goto(t, "idle", <<>>)
                  /\ lock' = {}
    /\ UNCHANGED <<config, event_counter, sink_log, ops, ids, last>>
    /\ UNCHANGED <<legacy_vars, hybrid_vars, sampler_vars>>

\* shutdown() on the event loop thread (no sampler task): it goes straight
\* to _flush_events_batch
ThreadShutdown ==
    /\ threads[LoopThread].pc = "idle"
    /\ events_buffer # <<>>
    /\ threads' = Goto(LoopThread, "flush", <<>>)
    /\ UNCHANGED <<core_vars, legacy_vars, hybrid_vars, sampler_vars, lock, ids, last>>

Release(a) == IF lock = {a} THEN {} ELSE lock

\* if not self._events_buffer: return; events_to_export = list(...)
FlushCopy(a) ==
    /\ threads[a].pc = "flush"
    /\ IF events_buffer = <<>>
       THEN /\ threads' = Goto(a, "idle", <<>>)
            /\ lock' = Release(a)
       ELSE /\ threads' = [threads EXCEPT ![a].pc = "clear",
                                          ![a].batch = events_buffer]
            /\ UNCHANGED lock
    /\ UNCHANGED <<core_vars, legacy_vars, hybrid_vars, sampler_vars, ids, last>>

\* self._events_buffer.clear()
FlushClear(a) ==
    /\ threads[a].pc = "clear"
    /\ events_buffer' = <<>>
    /\ threads' = [threads EXCEPT ![a].pc = "export"]
    /\ UNCHANGED <<config, event_counter, sink_log, appended, ops, lock, ids, last>>
    /\ UNCHANGED <<legacy_vars, hybrid_vars, sampler_vars>>

\* the loop over the exporters, and the return to the caller
FlushExport(a) ==
    /\ threads[a].pc = "export"
    /\ \E failing \in SUBSET Exporters(config) :
         sink_log' = export_loop(Current, 1, config.num_exporters,
                                 threads[a].batch, failing).sinks
    /\ threads' = Goto(a, "idle", <<>>)
    /\ lock' = Release(a)
    /\ UNCHANGED <<config, events_buffer, event_counter, appended, ops, ids, last>>
    /\ UNCHANGED <<legacy_vars, hybrid_vars, sampler_vars>>

NextThreads ==
    \/ \E t \in Threads : GenIncrement(t)
    \/ \E t \in Threads : GenFormat(t)
    \/ \E t \in Threads : ThreadLogAcquire(t)
    \/ \E t \in Threads : ThreadLogAppend(t)
    \/ ThreadShutdown
    \/ \E a \in DOMAIN threads : FlushCopy(a)
    \/ \E a \in DOMAIN threads : FlushClear(a)
    \/ \E a \in DOMAIN threads : FlushExport(a)

SpecThreads == InitIds /\ [][NextThreads]_vars

----------------------------------------------------------------------------
(* Construction from an arbitrary configuration.  validate_monitoring_config *)
(* exists in config/monitoring.py; neither __init__ nor the factory calls  *)
(* it.                                                                     *)

AnyConfigs ==
    [log_level : {"standard"},
     max_events_in_memory : -1..MaxCapacity,
     event_batch_size : -1..MaxBatch,
     num_exporters : {1},
     metrics_retention_hours : {-1, 0, DefaultRetentionHours},
     performance_sample_interval : {0},
     auto_cleanup_enabled : {TRUE},
     memory_warning_threshold : {-1, DefaultMemoryThreshold, 101},
     cpu_warning_threshold : {-1, DefaultCpuThreshold, 101}]

\* the assertions of validate_monitoring_config
validate_monitoring_config(cfg) ==
    /\ cfg.max_events_in_memory > 0
    /\ cfg.event_batch_size > 0
    /\ cfg.metrics_retention_hours > 0
    /\ 0 <= cfg.memory_warning_threshold /\ cfg.memory_warning_threshold <= 100
    /\ 0 <= cfg.cpu_warning_threshold /\ cfg.cpu_warning_threshold <= 100

\* OptimizedMonitoringSystem(config)
Construct ==
    /\ constructed = "pending"
    /\ constructed' = init_outcome(config)
    /\ last' = [call |-> "__init__",
                raised |-> IF init_outcome(config) = "ok" THEN NoValue
                           ELSE init_outcome(config)]
    /\ UNCHANGED <<core_vars, legacy_vars, hybrid_vars, thread_vars>>
    /\ UNCHANGED <<metrics_task, metrics_buffer, clock, shutdown_pc, sampler>>

InitConstruct ==
    /\ config \in AnyConfigs
    /\ InitFields
    /\ constructed = "pending"
    /\ InitLegacy
    /\ NoHybrid

NextConstruct ==
    \/ Construct
    \/ constructed = "ok" /\ GenerateEventId
    \/ constructed = "ok" /\ LogEvent

SpecConstruct == InitConstruct /\ [][NextConstruct]_vars

----------------------------------------------------------------------------
(* Properties *)

\* the events recorded with correlation id `id`, in the order recorded
ScopeEvents(log, id) ==
    LET RECURSIVE pick(_)
        pick(k) == IF k > Len(log) THEN <<>>
                   ELSE IF log[k].event_id = id THEN <<log[k]>> \o pick(k + 1)
                   ELSE pick(k + 1)
    IN pick(1)

Phases(evs) == [k \in 1..Len(evs) |-> evs[k].phase]

\* a scope's level and the standard level pass the configured verbosity
AdmittedScope(op) ==
    /\ level_hierarchy(op.level) <= level_hierarchy(config.log_level)
    /\ level_hierarchy("standard") <= level_hierarchy(config.log_level)

\* the events a finished scope must have left behind
ScopeRecorded(evs, outcome, propagated) ==
    /\ outcome.kind = "exception" =>
         /\ Phases(evs) = <<"start", "error", "complete">>
         /\ evs[2].error_message = outcome.msg
         /\ evs[3].success = "False"
         /\ propagated = outcome
    /\ outcome.kind = "return" =>
         /\ Phases(evs) = <<"start", "complete">>
         /\ evs[2].success = "True"

\* C1: a finished track_operation scope (optimized tracker, scope level and
\* standard level admitted; legacy tracker) whose block raised an exception
\* with message m has recorded exactly start, error (message m), complete
\* (success false), in that order, and the same exception propagated; one
\* whose block returned has recorded exactly start, complete (success true)
C1_ScopeEventsRecorded ==
    /\ \A id \in DOMAIN ops :
         (ops[id].pc = "done" /\ AdmittedScope(ops[id])) =>
            ScopeRecorded(ScopeEvents(appended, id), ops[id].outcome,
                          ops[id].propagated)
    /\ \A k \in 1..Len(legacy_ops) :
         legacy_ops[k].pc = "done" =>
            ScopeRecorded(ScopeEvents(events, legacy_ops[k].event_id),
                          legacy_ops[k].outcome, legacy_ops[k].propagated)

\* on every exit path exactly one complete event, whose success flag is true
\* iff nothing escaped the block, and an error event whenever something
\* escaped the block
ExitRecorded(evs, outcome) ==
    LET completes == {k \in 1..Len(evs) : evs[k].phase = "complete"}
        errors == {k \in 1..Len(evs) : evs[k].phase = "error"}
    IN /\ Cardinality(completes) = 1
       /\ \A k \in completes :
            (evs[k].success = "True") <=> (outcome.kind = "return")
       /\ outcome.kind # "return" => errors # {}

\* C2: every finished scope (normal return, exception, cancellation) has
\* recorded exactly one complete event whose success flag is true iff no
\* exception of any kind escaped the block, and an error event whenever one
\* escaped.  Stated for the scopes whose keyword arguments the event
\* constructor accepts, and whose events the verbosity filter admits.
C2_EveryExitPathRecorded ==
    /\ \A id \in DOMAIN ops :
         (/\ ops[id].pc = "done"
          /\ AdmittedScope(ops[id])
          /\ ops[id].kwargs \cap {"metadata", "duration_ms", "error_message"} = {})
         => ExitRecorded(ScopeEvents(appended, id), ops[id].outcome)
    /\ \A k \in 1..Len(legacy_ops) :
         legacy_ops[k].pc = "done" =>
            ExitRecorded(ScopeEvents(events, legacy_ops[k].event_id),
                         legacy_ops[k].outcome)

\* the ranks of the levels, as the specification lists them
Rank == [minimal |-> 0, standard |-> 1, detailed |-> 2, verbose |-> 3, debug |-> 4]

\* C3: should_log(L, V) is true iff rank(L) <= rank(V); a log_event call
\* appends its event iff should_log is true, and a rejected event changes
\* neither the event buffer nor the counters nor the scopes and invokes no
\* sink; configured minimal admits only minimal, configured debug admits all
C3_VerbosityFilter ==
    [][ (last.call = "generate_event_id" /\ last'.call = "log_event") =>
          LET e == last'.event
              admitted == Rank[e.level] <= Rank[config.log_level]
          IN /\ \A l \in LogLevels, v \in LogLevels :
                  should_log(l, v) <=> (Rank[l] <= Rank[v])
             /\ admitted => appended' = Append(appended, e)
             /\ ~admitted =>
                  UNCHANGED <<events_buffer, sink_log, appended,
                              event_counter, ops, metrics_buffer>>
             /\ config.log_level = "minimal" => (admitted <=> e.level = "minimal")
             /\ config.log_level = "debug" => admitted
      ]_vars

\* C3 witness: an event above the configured level was rejected after an
\* event had been admitted
C3_RejectedAfterAdmitted ==
    /\ last.call = "log_event"
    /\ Rank[last.event.level] > Rank[config.log_level]
    /\ Len(appended) >= 1
    /\ \A k \in 1..Len(appended) : appended[k].event_id # last.event.event_id

\* the export calls made on exporter i
CallsOf(log, i) == {k \in 1..Len(log) : log[k].exporter = i}

\* C4: from an empty queue, once exactly event_batch_size admitted events
\* have been logged every registered sink has had exactly one export call,
\* with all of them in the order logged, and the queue is empty; after
\* event_batch_size - 1 admitted events no sink has been called
C4_BatchOfExactlyBatchSize ==
    /\ Len(appended) = config.event_batch_size =>
         /\ events_buffer = <<>>
         /\ \A i \in Exporters(config) :
              /\ Cardinality(CallsOf(sink_log, i)) = 1
              /\ \A k \in CallsOf(sink_log, i) : sink_log[k].batch = appended
    /\ Len(appended) = config.event_batch_size - 1 => sink_log = <<>>

\* C5: once more than max_events_in_memory admitted events have been
\* logged, the event buffer holds exactly the max_events_in_memory most
\* recent ones, oldest first
C5_RetainsMostRecent ==
    Len(appended) > config.max_events_in_memory =>
        events_buffer = SubSeq(appended,
                               Len(appended) - config.max_events_in_memory + 1,
                               Len(appended))

\* the events handed to exporter i so far, call after call
RECURSIVE Delivered(_, _, _)
Delivered(log, i, k) ==
    IF k > Len(log) THEN <<>>
    ELSE (IF log[k].exporter = i THEN log[k].batch ELSE <<>>) \o Delivered(log, i, k + 1)

\* C6: a flush hands the same batch to every registered sink exactly once,
\* in registration order, whichever of the exports fail; nothing is raised
\* out of the call, the queue is empty afterwards, and no event is handed to
\* a sink twice or stays queued after it was handed over
C6_SinkFailureContained ==
    [][ sink_log' # sink_log =>
          LET n == config.num_exporters
              calls == SubSeq(sink_log', Len(sink_log) + 1, Len(sink_log'))
          IN /\ Len(calls) = n
             /\ \A i \in 1..n : /\ calls[i].exporter = i
                                /\ calls[i].batch = calls[1].batch
                                /\ calls[i].batch # <<>>
             /\ last'.raised = NoValue
             /\ events_buffer' = <<>>
             /\ \A i \in 1..n :
                  LET d == Delivered(sink_log', i, 1)
                  IN \A a, b \in 1..Len(d) : a # b => d[a].event_id # d[b].event_id
      ]_vars

\* C6 witness: log_event returned after the first sink's export failed and
\* the second sink received the same batch
C6_SecondSinkServedAfterFailure ==
    /\ last.call = "log_event"
    /\ last.raised = NoValue
    /\ last.failed = {1}
    /\ config.num_exporters = 2
    /\ LET k == Len(sink_log) - 1
       IN /\ k >= 1
          /\ sink_log[k].exporter = 1
          /\ sink_log[k + 1].exporter = 2
          /\ sink_log[k + 1].batch = sink_log[k].batch
          /\ \E j \in 1..Len(sink_log[k].batch) :
               sink_log[k].batch[j] = last.event

\* C7: what leaves a finished scope of the optimized tracker is what left
\* the caller's block: nothing when the block returned, exactly E when the
\* block raised E, for every combination of keyword arguments
C7_OnlyCallerErrorsPropagate ==
    \A id \in DOMAIN ops :
        ops[id].pc = "done" => ops[id].propagated = Leaves(ops[id].outcome)

\* C8: for every session id carried by an event of the event list, the
\* aggregate of that session exists, its events_count is the number of
\* events carrying the id, its errors_count the number of those whose kind
\* contains "error", and its total_files_analyzed the number of those of
\* kind file-analysis-complete that have a duration; a session no event
\* carries has no aggregate
C8_SessionAggregatesMatchEvents ==
    \A s \in Sessions :
        LET carried == {k \in 1..Len(events) : events[k].user_session_id = s}
        IN IF carried = {} THEN s \notin DOMAIN session_stats
           ELSE /\ s \in DOMAIN session_stats
                /\ session_stats[s].events_count = Cardinality(carried)
                /\ session_stats[s].errors_count =
                     Cardinality({k \in carried :
                                    InValue("error", events[k].event_type)})
                /\ session_stats[s].total_files_analyzed =
                     Cardinality({k \in carried :
                                    /\ events[k].event_type = "file_analysis_complete"
                                    /\ events[k].duration_ms # <<>>})

\* the kinds with a counterpart in both vocabularies
MappedKinds == {pair[1] : pair \in mapping} \cup {pair[2] : pair \in mapping}

\* C9: one HybridMonitoringSystem.log_event call with a kind known to both
\* vocabularies and keyword arguments both event classes accept: with both
\* stacks enabled the optimized log_event is called once and the legacy
\* event list grows by one event; with one stack enabled only that stack
\* receives the event
C9_MirroredToEnabledStacks ==
    [][ (/\ last'.call = "hybrid_log_event"
         /\ last'.event_type \in MappedKinds
         /\ last'.kwargs \subseteq (Attributes \cap LegacyAttributes)) =>
          /\ last'.new_called <=> hybrid.use_new_system
          /\ Len(events') = Len(events) + (IF hybrid.use_old_system THEN 1 ELSE 0)
      ]_vars

\* C10: when the call into the optimized stack raises during
\* HybridMonitoringSystem.log_event, nothing is raised to the caller, the
\* call into the legacy stack is still performed when that stack is enabled
\* and knows the kind (the legacy logger records the event), and with
\* comparison mode on errors_new alone is incremented; a call in which no
\* stack raises increments no error counter
C10_StackFailureContained ==
    [][ last'.call = "hybrid_log_event" =>
          LET old_kind == IF IsNewEventType(last'.event_type)
                          THEN new_to_old(hybrid.old_available, last'.event_type)
                          ELSE last'.event_type
          IN /\ last'.raised = NoValue
             /\ (last'.new_raised /\ hybrid.use_old_system /\ old_kind # NoValue) =>
                  /\ last'.old_called
                  /\ Len(events') = Len(events) + 1
             /\ comparison_stats'.errors_old = comparison_stats.errors_old
             /\ comparison_stats'.errors_new = comparison_stats.errors_new +
                  (IF last'.new_raised /\ hybrid.compare_systems THEN 1 ELSE 0)
             /\ last'.new_raised =>
                  /\ comparison_stats'.events_logged_new = comparison_stats.events_logged_new
                  /\ appended' = appended
      ]_vars

\* the report of the current comparison statistics
Report == generate_comparison_report(comparison_stats)

\* no call made so far raised in a stack
NoCallRaised == \A k \in 1..Len(hybrid_log) : ~hybrid_log[k].raised

\* the report's error rates are errors / max(events, 1) x 100 of the
\* counters, and each stack has as many timing samples as logged events
ReportMatchesCounters ==
    /\ RatioEq(Report.error_rates.new_system,
               Ratio(comparison_stats.errors_new * 100,
                     IF comparison_stats.events_logged_new > 1
                     THEN comparison_stats.events_logged_new ELSE 1))
    /\ RatioEq(Report.error_rates.old_system,
               Ratio(comparison_stats.errors_old * 100,
                     IF comparison_stats.events_logged_old > 1
                     THEN comparison_stats.events_logged_old ELSE 1))
    /\ Len(comparison_stats.performance_new) = comparison_stats.events_logged_new
    /\ Len(comparison_stats.performance_old) = comparison_stats.events_logged_old

\* C11 as stated: with comparison mode on and both stacks enabled, after n
\* calls none of which raised the report shows an event count of n and an
\* error rate of 0 for each stack; in every state the error rates follow
\* the counters and the timing samples of a stack number its event count
C11_ReportCountsEveryCall ==
    /\ ReportMatchesCounters
    /\ (/\ hybrid.compare_systems
        /\ hybrid.use_new_system /\ hybrid.use_old_system
        /\ NoCallRaised) =>
          /\ Report.events_comparison.new_system = Len(hybrid_log)
          /\ Report.events_comparison.old_system = Len(hybrid_log)
          /\ Report.error_rates.new_system.num = 0
          /\ Report.error_rates.old_system.num = 0

\* C11 amended: the same, for calls whose kind has a counterpart in both
\* vocabularies (a kind the legacy vocabulary lacks is dropped for the
\* legacy stack and not counted for it)
C11_ReportCountsMirroredCalls ==
    /\ ReportMatchesCounters
    /\ (/\ hybrid.compare_systems
        /\ hybrid.use_new_system /\ hybrid.use_old_system
        /\ NoCallRaised
        /\ \A k \in 1..Len(hybrid_log) : hybrid_log[k].event_type \in MappedKinds) =>
          /\ Report.events_comparison.new_system = Len(hybrid_log)
          /\ Report.events_comparison.old_system = Len(hybrid_log)
          /\ Report.error_rates.new_system.num = 0
          /\ Report.error_rates.old_system.num = 0

\* C11 witness: comparison mode, both stacks, MaxHybridCalls mirrored calls
\* made and none raised; and a state where a call raised is reachable too
C11_AllCallsMirrored ==
    /\ hybrid.compare_systems
    /\ hybrid.use_new_system /\ hybrid.use_old_system
    /\ Len(hybrid_log) = MaxHybridCalls
    /\ NoCallRaised
    /\ \A k \in 1..Len(hybrid_log) : hybrid_log[k].event_type \in MappedKinds
    /\ Report.events_comparison.old_system = MaxHybridCalls

\* C12: when both stacks have timing samples and every latency of one is
\* higher than every latency of the other, the verdict names the other;
\* a stack without a timing sample is never named the faster one when the
\* other stack has samples
C12_FasterSystemVerdict ==
    LET new == comparison_stats.performance_new
        old == comparison_stats.performance_old
        verdict == Report.performance_improvement.faster_system
    IN hybrid.compare_systems =>
         /\ (new # <<>> /\ old # <<>>) =>
              /\ (\A a \in 1..Len(new), b \in 1..Len(old) : new[a] > old[b])
                    => verdict = "old"
              /\ (\A a \in 1..Len(new), b \in 1..Len(old) : new[a] < old[b])
                    => verdict = "new"
         /\ (new = <<>> /\ old # <<>>) => verdict = "old"
         /\ (old = <<>> /\ new # <<>>) => verdict = "new"

\* C13: a system is constructed only from a valid configuration (positive
\* capacity, batch size and retention, thresholds within 0..100), so no
\* log_event call runs against a non-positive capacity or batch size
C13_InvalidConfigurationRejected ==
    /\ constructed = "ok" => validate_monitoring_config(config)
    /\ last.call = "log_event" =>
          /\ config.max_events_in_memory > 0
          /\ config.event_batch_size > 0

\* C14: a sampling pass that fails does not end the sampler task (the task
\* ends only by cancellation), and after a failed pass another pass is
\* made unless the task is cancelled
C14_FailedPassDoesNotEndSampler ==
    /\ [](metrics_task # "finished")
    /\ [](sampler.failed /\ shutdown_pc.calls = 0 => metrics_task = "sleeping")
    /\ \A p \in {0, 1} :
         (sampler.failed /\ sampler.pass = p /\ metrics_task = "sleeping")
            ~> (sampler.pass # p \/ metrics_task # "sleeping")

\* C14 witness: a pass that stored a sample was made after a failed pass
C14_PassAfterFailedPass ==
    /\ sampler.after_failure
    /\ ~sampler.failed
    /\ metrics_buffer # <<>>
    /\ metrics_task = "sleeping"

\* the shutdown() that returns in this step hands the queued events to
\* every exporter
ShutdownFlushes ==
    (shutdown_pc'.returns = shutdown_pc.returns + 1 /\ events_buffer # <<>>) =>
       /\ Len(sink_log') = Len(sink_log) + config.num_exporters
       /\ \A i \in Exporters(config) :
            sink_log'[Len(sink_log) + i] = ExportCall(i, events_buffer)

\* C15: the sampler task exists iff the sampling interval is positive; when
\* shutdown() has returned the task is finished and the queue is empty,
\* the events that were queued have been handed to the exporters, no
\* sample or warning is produced afterwards, and every shutdown() call
\* returns, a second call included
C15_ShutdownStopsSampler ==
    /\ []((metrics_task # NoValue) <=> (config.performance_sample_interval > 0))
    /\ [](last.call = "shutdown" =>
            /\ metrics_task \in {NoValue, "cancelled"}
            /\ events_buffer = <<>>)
    /\ [][ShutdownFlushes]_vars
    /\ [][shutdown_pc.returns > 0 =>
            /\ metrics_buffer' = metrics_buffer
            /\ sampler' = sampler]_vars
    /\ \A n \in 1..MaxShutdowns :
         (shutdown_pc.calls = n) ~> (shutdown_pc.returns = n)

\* C15 witness: the second shutdown() of a system with a sampler has
\* returned, the first having flushed queued events after cancelling the
\* task
C15_SecondShutdownReturned ==
    /\ shutdown_pc.returns = MaxShutdowns
    /\ last.call = "shutdown"
    /\ metrics_task = "cancelled"
    /\ sampler.warnings > 0
    /\ sink_log # <<>>

\* C16: the identifiers generate_event_id has returned on one instance are
\* pairwise distinct, whichever threads asked for them and whether or not
\* the legacy event list was cleared in between
C16_IdentifiersDistinct ==
    \A i, j \in 1..Len(ids) :
        (i # j /\ ids[i].system = ids[j].system) => ids[i].id # ids[j].id

\* C17: a legacy log_event call on an event that carries a performance
\* metrics record (and metadata json.dumps accepts) does not raise, also
\* when the event or its metrics record was logged before, and leaves the
\* record's timestamp a string
C17_MetricsTimestampSerialized ==
    (/\ last.call = "legacy_log_event"
     /\ events[Len(events)].performance_metrics # 0
     /\ events[Len(events)].serializable) =>
        /\ last.raised = NoValue
        /\ metrics_store[events[Len(events)].performance_metrics]

\* the events handed to the first exporter so far, followed by the buffer
RECURSIVE Exported(_)
Exported(calls) ==
    IF calls = <<>> THEN <<>>
    ELSE (IF Head(calls).exporter = 1 THEN Head(calls).batch ELSE <<>>)
         \o Exported(Tail(calls))

GlobalStream == Exported(sink_log) \o events_buffer

PhaseOrder(phase) ==
    CASE phase = "start" -> 1 [] phase = "error" -> 2 [] phase = "complete" -> 3
      [] OTHER -> 0

\* C18: in the global stream the events carrying the correlation id of a
\* scope are events of that scope, in the order start, error, complete, each
\* at most once; a scope is opened under an id that no earlier scope has and
\* no earlier event carries
C18_ScopeTimelineByCorrelationId ==
    /\ [](\A id \in DOMAIN ops :
            ops[id].pc # "none" =>
              LET evs == ScopeEvents(GlobalStream, id)
              IN /\ \A k \in 1..Len(evs) : PhaseOrder(evs[k].phase) > 0
                 /\ \A k \in 1..(Len(evs) - 1) :
                      PhaseOrder(evs[k].phase) < PhaseOrder(evs[k + 1].phase))
    /\ [][\A id \in DOMAIN ops :
            (ops'[id] # ops[id] /\ ops'[id].pc = "running") =>
               /\ ops[id].pc = "none"
               /\ ScopeEvents(appended, id) = <<>>]_vars

\* C18 witness: two finished scopes whose events are interleaved in the
\* global stream with each other and with a direct event, one of them with
\* start, error and complete, part of the stream exported and part buffered
C18_InterleavedScopes ==
    \E a, b \in DOMAIN ops :
       /\ a # b /\ ops[a].pc = "done" /\ ops[b].pc = "done"
       /\ Phases(ScopeEvents(GlobalStream, a)) = <<"start", "error", "complete">>
       /\ ScopeEvents(GlobalStream, b) # <<>>
       /\ sink_log # <<>> /\ events_buffer # <<>>
       /\ \E i, j, k \in 1..Len(GlobalStream) :
            /\ i < j /\ j < k
            /\ GlobalStream[i].event_id = a
            /\ GlobalStream[j].event_id = b
            /\ GlobalStream[k].event_id = a
       /\ \E i \in 1..Len(GlobalStream) : GlobalStream[i].phase = "direct"

\* number of times event e occurs in a sequence of events
Occurrences(e, evs) == Cardinality({k \in 1..Len(evs) : evs[k] = e})

\* C19: a thread that is about to append to the event buffer or to clear it
\* holds the buffer lock, so no flush runs while another thread appends;
\* and no logged event is lost or doubled: once every call has returned,
\* each event log_event appended is in the global stream exactly once
C19_MutationsUnderLock ==
    /\ \A a \in DOMAIN threads :
         threads[a].pc \in {"append", "clear"} => lock = {a}
    /\ (\A a \in DOMAIN threads : threads[a].pc = "idle") =>
         \A k \in 1..Len(appended) :
            Occurrences(appended[k], GlobalStream) = 1

\* C20: the event a HybridMonitoringSystem.log_event call records in the
\* optimized stack has the kind it was logged with when that is a kind of
\* the new vocabulary, and the mapped kind old_to_new(k) when it was logged
\* with a legacy kind k, with and without the legacy module
C20_KindRecordedInOptimizedStack ==
    (/\ last.call = "hybrid_log_event"
     /\ last.new_called
     /\ should_log("standard", config.log_level)) =>
        appended[Len(appended)].event_type =
            IF IsNewEventType(last.event_type) THEN last.event_type
            ELSE old_to_new(TRUE, last.event_type)


\* the events the optimized stack recorded for hybrid scope k
HybridScopeEvents(k) ==
    IF hybrid_ops[k].new_id = <<>> THEN <<>>
    ELSE ScopeEvents(appended, hybrid_ops[k].new_id[1])

\* C21: a finished HybridMonitoringSystem.track_operation scope whose block
\* raised E lets exactly E propagate, and the optimized stack, when enabled
\* and admitting the events, has recorded an error event and a complete
\* event with success false for it, and no complete event with success true
C21_HybridScopeRecordsFailure ==
    \A k \in 1..Len(hybrid_ops) :
        (hybrid_ops[k].pc = "done" /\ hybrid_ops[k].outcome.kind = "exception") =>
            /\ hybrid_ops[k].propagated = hybrid_ops[k].outcome
            /\ (/\ hybrid.use_new_system
                /\ AdmittedScope(ops[hybrid_ops[k].new_id[1]])
                /\ ops[hybrid_ops[k].new_id[1]].kwargs = {}) =>
                 LET evs == HybridScopeEvents(k)
                 IN /\ \E j \in 1..Len(evs) : evs[j].phase = "error"
                    /\ \E j \in 1..Len(evs) :
                         evs[j].phase = "complete" /\ evs[j].success = "False"
                    /\ \A j \in 1..Len(evs) :
                         evs[j].phase = "complete" => evs[j].success # "True"


\* C22: for every configuration (batch sizes above the capacity included)
\* no admitted event leaves the buffer without having been handed to every
\* registered sink, no sink is handed an event twice, and when shutdown()
\* has completed every sink has been handed exactly the admitted events
C22_EveryAdmittedEventExportedOnce ==
    \A i \in Exporters(config) :
        LET handed == Delivered(sink_log, i, 1)
        IN /\ \A k \in 1..Len(appended) :
                Occurrences(appended[k], events_buffer)
                    + Occurrences(appended[k], handed) = 1
           /\ last.call = "shutdown" => handed = appended


\* a step that is one sampling pass in which psutil answered
IsSamplePass ==
    /\ last'.call = "collect_performance_metrics"
    /\ last.call = "collect_performance_metrics" => last'.pass # last.pass
    /\ ~last'.reading.fails

\* the events the step recorded
RecordedByStep == SubSeq(appended', Len(appended) + 1, Len(appended'))

\* C23: in a sampling pass, on every verbosity level, a CPU warning event is
\* recorded iff the CPU reading exceeds cpu_warning_threshold, a memory
\* warning event iff the memory reading exceeds memory_warning_threshold,
\* and exactly one sample is appended to the metrics buffer: the buffer
\* ends with the new sample, preceded by samples it held before
C23_WarningsAndSamplePerPass ==
    [][ IsSamplePass =>
          LET new == RecordedByStep
              kinds == {new[k].event_type : k \in 1..Len(new)}
          IN /\ "CPU_WARNING" \in kinds <=>
                  last'.reading.cpu_percent > config.cpu_warning_threshold
             /\ "MEMORY_WARNING" \in kinds <=>
                  last'.reading.memory_percent > config.memory_warning_threshold
             /\ kinds \subseteq {"CPU_WARNING", "MEMORY_WARNING"}
             /\ metrics_buffer' # <<>>
             /\ metrics_buffer'[Len(metrics_buffer')] = clock.now
             /\ \E k \in 0..Len(metrics_buffer) :
                  SubSeq(metrics_buffer', 1, Len(metrics_buffer') - 1)
                      = SubSeq(metrics_buffer, k + 1, Len(metrics_buffer))
      ]_vars


\* a step that is one call of _cleanup_old_data by itself
IsCleanupCall ==
    /\ last'.call = "cleanup_old_data"
    /\ last.call = "cleanup_old_data" => last'.pass # last.pass

\* the samples of a sequence that are not older than the retention horizon
NotOlderThanHorizon(metrics) ==
    LET cutoff_time == clock.now - config.metrics_retention_hours * SecondsPerHour
        Young(timestamp) == timestamp >= cutoff_time
    IN SelectSeq(metrics, Young)

\* C24: the horizon cleanup takes effect at most once in 3600 seconds (an
\* effective cleanup sets the time of the last cleanup, at least 3600
\* seconds after the previous one, and only an effective cleanup removes
\* samples); an effective cleanup removes exactly the samples older than
\* the retention horizon and keeps every younger one; a cleanup call never
\* changes the event buffer or what was exported
C24_HorizonCleanup ==
    [][ /\ clock'.last_cleanup # clock.last_cleanup =>
             /\ clock'.last_cleanup - clock.last_cleanup >= CleanupPeriod
             /\ clock'.last_cleanup = clock.now
        /\ IsCleanupCall =>
             /\ UNCHANGED <<events_buffer, appended, sink_log>>
             /\ metrics_buffer' =
                  IF clock'.last_cleanup # clock.last_cleanup
                  THEN NotOlderThanHorizon(metrics_buffer)
                  ELSE metrics_buffer
        /\ IsSamplePass =>
             LET stored == deque_append(metrics_buffer, clock.now,
                               config.max_events_in_memory \div MetricsShare)
             IN metrics_buffer' =
                  IF clock'.last_cleanup # clock.last_cleanup
                  THEN NotOlderThanHorizon(stored)
                  ELSE stored
      ]_vars

\* C24 witness: a cleanup call removed a sample, kept a sample that is
\* exactly as old as the horizon, and the event buffer holds an event
C24_CleanupRemovedOldKeptYoung ==
    /\ last.call = "cleanup_old_data"
    /\ last.removed >= 1
    /\ clock.last_cleanup = clock.now
    /\ metrics_buffer # <<>>
    /\ metrics_buffer[1] = clock.now - config.metrics_retention_hours * SecondsPerHour
    /\ events_buffer # <<>>


\* C25: in every state the event buffer holds at most max_events_in_memory
\* events and the metrics buffer at most max_events_in_memory // 10
\* samples; when a log_event call has returned the event buffer holds fewer
\* than event_batch_size events; the sizes get_analytics_summary reports
\* are within the same bounds
C25_BufferBounds ==
    LET max_metrics == config.max_events_in_memory \div MetricsShare
    IN /\ Len(events_buffer) <= config.max_events_in_memory
       /\ Len(metrics_buffer) <= max_metrics
       /\ last.call = "log_event" =>
            Len(events_buffer) < config.event_batch_size
       /\ last.call = "get_analytics_summary" =>
            /\ last.summary.events_in_buffer <= config.max_events_in_memory
            /\ last.summary.metrics_in_buffer <= max_metrics
            /\ event_counter > 0 =>
                 last.summary.events_in_buffer < config.event_batch_size


\* the phases of the events recorded for the optimized scope `id`
RecordedPhases(id) ==
    LET evs == ScopeEvents(appended, id)
    IN {evs[k].phase : k \in 1..Len(evs)}

\* C26: for every configured verbosity and every scope level, a finished
\* scope of the optimized tracker (keyword arguments the event constructor
\* accepts) is recorded all or nothing: a recorded start event comes with a
\* recorded complete event and, when the block raised, a recorded error
\* event; an error event is never recorded without the start event
C26_ScopeRecordedAllOrNothing ==
    \A id \in DOMAIN ops :
        (ops[id].pc = "done" /\ ops[id].kwargs = {}) =>
            LET phases == RecordedPhases(id)
            IN /\ "start" \in phases => "complete" \in phases
               /\ ("start" \in phases /\ ops[id].outcome.kind = "exception") =>
                    "error" \in phases
               /\ "error" \in phases => "start" \in phases


\* the step leaves legacy scope k, which carries a session id and metadata
\* json.dumps accepts
LegacyScopeLeft(k) ==
    /\ legacy_ops[k].pc = "running"
    /\ legacy_ops'[k].pc = "done"
    /\ legacy_ops[k].session # NoValue
    /\ legacy_ops[k].serializable

\* C27: leaving a legacy scope that carries a session id: when the block
\* raised, the session's errors_count grows by exactly 1 and its
\* events_count reaches 3 more than before the scope (2 more than after
\* the start event); when the block returned, errors_count is unchanged;
\* total_files_analyzed grows only for a file-analysis operation, not for
\* a file scan
C27_LegacyScopeSessionCounters ==
    [][ \A k \in 1..Len(legacy_ops) :
          LegacyScopeLeft(k) =>
            LET session == legacy_ops[k].session
                before == IF session \in DOMAIN session_stats
                          THEN session_stats[session] ELSE NewSession
                after == session_stats'[session]
                type == legacy_ops[k].operation_type
                outcome == legacy_ops'[k].outcome
            IN /\ outcome.kind = "exception" =>
                    /\ after.errors_count = before.errors_count + 1
                    /\ after.events_count = before.events_count + 2
               /\ outcome.kind = "return" =>
                    after.errors_count = before.errors_count
               /\ after.total_files_analyzed # before.total_files_analyzed =>
                    InValue("file", type) /\ InValue("analysis", type)
      ]_vars


----------------------------------------------------------------------------
(***************************************************************************)
(* The global hybrid instance and the health check.                        *)
(*                                                                         *)
(* migration_adapter imports get_system_health from the legacy module and  *)
(* defines a function of the same name further down; when health_check     *)
(* runs, the name denotes the function of migration_adapter.               *)
(***************************************************************************)

\* the values a MONITORING_* flag takes; NoValue: the variable is not set
EnvFlagValues == {NoValue, "true", "false", "TRUE"}

Environments ==
    [MONITORING_USE_NEW : EnvFlagValues, MONITORING_USE_OLD : EnvFlagValues,
     MONITORING_COMPARE : {NoValue, "true"},
     MONITORING_ENV : {NoValue, "production"},
     MONITORING_LOG_LEVEL : {NoValue, "debug"}]

\* os.getenv(name, default)
getenv(env, name, default) ==
    IF env[name] = NoValue THEN default ELSE env[name]

\* str.lower on the values above
str_lower(v) == IF v = "TRUE" THEN "true" ELSE v

\* MonitoringConfigManager.get_monitoring_config
get_monitoring_config(env) ==
    [use_new_system |->
         str_lower(getenv(env, "MONITORING_USE_NEW", "true")) = "true",
     use_old_system |->
         str_lower(getenv(env, "MONITORING_USE_OLD", "true")) = "true",
     compare_systems |->
         str_lower(getenv(env, "MONITORING_COMPARE", "false")) = "true",
     environment |-> getenv(env, "MONITORING_ENV", "development"),
     log_level |-> getenv(env, "MONITORING_LOG_LEVEL", "standard")]

\* the parameters of HybridMonitoringSystem.__init__
HybridInitParameters ==
    {"use_new_system", "use_old_system", "compare_systems", "environment"}

\* HybridMonitoringSystem(**kwargs): a keyword that is not a parameter is a
\* TypeError raised before the body runs
hybrid_init(kwargs, available) ==
    IF ~(DOMAIN kwargs \subseteq HybridInitParameters)
    THEN [raised |-> "TypeError", system |-> <<>>]
    ELSE [raised |-> NoValue,
          system |-> <<[use_new_system |-> kwargs.use_new_system,
                        use_old_system |-> kwargs.use_old_system /\ available,
                        compare_systems |-> kwargs.compare_systems,
                        old_available |-> available]>>]

\* MonitoringConfigManager.create_monitoring_system
create_monitoring_system(env, available) ==
    hybrid_init(get_monitoring_config(env), available)

\* get_monitoring_system: system is the value of _global_monitoring_system
\* after the call, which is also what the call returns when nothing is raised
get_monitoring_system(global, env, available) ==
    IF global = <<>>
    THEN create_monitoring_system(env, available)
    ELSE [raised |-> NoValue, system |-> global]

\* the chain that sets health['overall_status']
overall_status(statuses) ==
    IF "error" \in statuses THEN "error"
    ELSE IF "warning" \in statuses THEN "warning"
    ELSE IF "healthy" \in statuses THEN "healthy"
    ELSE "unknown"

\* get_system_health() as health_check calls it, with the exception it
\* raises or the value it returns (<<>> for None).  Without a global instance the instance
\* is built first.  With a global instance whose legacy stack is enabled,
\* its health_check calls get_system_health again, on the same instance,
\* until the interpreter raises RecursionError; the innermost health_check
\* catches it and every level hands the error entry up.  With a global
\* instance whose legacy stack is disabled, CompatibilityAdapter returns
\* health['old_system'], which is None
hybrid_get_system_health(global, env, available) ==
    LET g == get_monitoring_system(global, env, available)
    IN IF g.raised # NoValue
       THEN [raised |-> g.raised, value |-> <<>>, global |-> g.system,
             reentered |-> FALSE]
       ELSE IF g.system[1].use_old_system /\ g.system[1].old_available
       THEN [raised |-> NoValue,
             value |-> <<[status |-> "error", error |-> "RecursionError"]>>,
             global |-> g.system, reentered |-> TRUE]
       ELSE [raised |-> NoValue, value |-> <<>>, global |-> g.system,
             reentered |-> TRUE]

\* HybridMonitoringSystem.health_check.  The entry of the optimized stack
\* reads two attributes and cannot fail; None.get(...) on the value of the
\* legacy stack is an AttributeError, caught like any other exception
hybrid_health_check(h, global, env) ==
    LET new_entry == IF h.use_new_system
                     THEN <<[status |-> "healthy"]>> ELSE <<>>
        called == h.use_old_system /\ h.old_available
        o == hybrid_get_system_health(global, env, h.old_available)
        old_entry == IF ~called THEN <<>>
                     ELSE IF o.raised # NoValue
                     THEN <<[status |-> "error", error |-> o.raised]>>
                     ELSE IF o.value = <<>>
                     THEN <<[status |-> "error", error |-> AttributeError.kind]>>
                     ELSE o.value
        statuses == {new_entry[i].status : i \in 1..Len(new_entry)}
                    \cup {old_entry[i].status : i \in 1..Len(old_entry)}
    IN [new_system |-> new_entry, old_system |-> old_entry,
        overall_status |-> overall_status(statuses),
        reentered |-> called /\ o.reentered,
        global |-> IF called THEN o.global ELSE global]

\* hybrid.health_check() on a directly constructed hybrid, while the
\* legacy logger, asked directly, would report legacy_status
HybridHealthCheck ==
    /\ \E cpu \in LegacyCpuReadings, mem \in LegacyMemoryReadings,
          disk \in LegacyDiskReadings :
         LET r == hybrid_health_check(hybrid, global_monitoring_system, environ)
         IN /\ global_monitoring_system' = r.global
            /\ last' = [call |-> "health_check", raised |-> NoValue,
                        health |-> r,
                        legacy_status |-> legacy_health_status(cpu, mem, disk),
                        pass |-> IF "pass" \in DOMAIN last
                                 THEN 1 - last.pass ELSE 0]
    /\ UNCHANGED <<hybrid, comparison_stats, coroutines, hybrid_log, hybrid_ops,
                   environ>>
    /\ UNCHANGED <<core_vars, legacy_vars, sampler_vars, thread_vars>>

\* application code calls get_monitoring_system()
GetMonitoringSystem ==
    /\ LET g == get_monitoring_system(global_monitoring_system, environ,
                                      hybrid.old_available)
       IN /\ global_monitoring_system' = g.system
          /\ last' = [call |-> "get_monitoring_system", raised |-> g.raised,
                      system |-> IF g.raised = NoValue THEN g.system ELSE <<>>,
                      pass |-> IF "pass" \in DOMAIN last
                               THEN 1 - last.pass ELSE 0]
    /\ UNCHANGED <<hybrid, comparison_stats, coroutines, hybrid_log, hybrid_ops,
                   environ>>
    /\ UNCHANGED <<core_vars, legacy_vars, sampler_vars, thread_vars>>

\* the drop-in functions of migration_adapter
DropInFunctions ==
    {"track_analysis_operation", "log_analysis_event", "get_system_health",
     "get_analytics_summary"}

\* a drop-in function is called (and awaited, for the two coroutine
\* functions): each obtains the global instance first and then delegates to
\* it; system is the instance the call operated on, if it got one
DropInCall ==
    /\ \E f \in DropInFunctions :
         LET g == get_monitoring_system(global_monitoring_system, environ,
                                        hybrid.old_available)
         IN /\ global_monitoring_system' = g.system
            /\ last' = [call |-> f, raised |-> g.raised,
                        system |-> IF g.raised = NoValue THEN g.system ELSE <<>>,
                        pass |-> IF "pass" \in DOMAIN last
                                 THEN 1 - last.pass ELSE 0]
    /\ UNCHANGED <<hybrid, comparison_stats, coroutines, hybrid_log, hybrid_ops,
                   environ>>
    /\ UNCHANGED <<core_vars, legacy_vars, sampler_vars, thread_vars>>

\* a directly constructed hybrid in a process whose MONITORING_* variables
\* are set or not, before the first call of get_monitoring_system
InitGlobal ==
    /\ \E use_new \in BOOLEAN, use_old \in BOOLEAN, compare \in BOOLEAN,
          available \in BOOLEAN :
         hybrid = [use_new_system |-> use_new,
                   use_old_system |-> use_old /\ available,
                   compare_systems |-> compare,
                   old_available |-> available]
    /\ InitNewSystem
    /\ InitLegacyFields
    /\ legacy_logger = IF hybrid.old_available THEN Imported ELSE NotImported
    /\ comparison_stats = NoComparison
    /\ coroutines = 0
    /\ hybrid_log = <<>>
    /\ hybrid_ops = <<>>
    /\ environ \in Environments
    /\ global_monitoring_system = <<>>

NextGlobal ==
    \/ HybridHealthCheck
    \/ GetMonitoringSystem
    \/ DropInCall

SpecGlobal == InitGlobal /\ [][NextGlobal]_vars


----------------------------------------------------------------------------
\* the statuses of the stacks a hybrid has enabled, when the legacy logger
\* itself would report legacy_status
EnabledStatuses(h, legacy_status) ==
    (IF h.use_new_system THEN {"healthy"} ELSE {})
    \cup (IF h.use_old_system /\ h.old_available THEN {legacy_status} ELSE {})

\* the worst of a non-empty set of statuses
worst_status(statuses) ==
    IF "error" \in statuses THEN "error"
    ELSE IF "critical" \in statuses THEN "critical"
    ELSE IF "warning" \in statuses THEN "warning"
    ELSE "healthy"

\* C28: HybridMonitoringSystem.health_check never raises, does not call
\* back into itself, and its overall_status is the worst status among the
\* enabled stacks: 'healthy' only when every enabled stack reports healthy,
\* and 'healthy' when both stacks are enabled and both are healthy
C28_HealthIsWorstOfEnabledStacks ==
    last.call = "health_check" =>
        LET enabled == EnabledStatuses(hybrid, last.legacy_status)
        IN /\ last.raised = NoValue
           /\ ~last.health.reentered
           /\ enabled # {} =>
                  last.health.overall_status = worst_status(enabled)


----------------------------------------------------------------------------
\* the new kinds without a legacy counterpart
UnmappedNewKinds ==
    {"SYSTEM_START", "SYSTEM_SHUTDOWN", "MEMORY_WARNING", "CPU_WARNING"}

\* a step that is one HybridMonitoringSystem.log_event call
IsHybridLogCall == Len(hybrid_log') = Len(hybrid_log) + 1

\* the two round trips of EventTypeMapper over both enumerations, and the
\* new kinds that map to no legacy kind
MappingBijection ==
    /\ \A k \in OldEventTypes :
         new_to_old(TRUE, old_to_new(TRUE, k)) = k
    /\ \A k \in NewEventTypes :
         new_to_old(TRUE, k) # NoValue =>
             old_to_new(TRUE, new_to_old(TRUE, k)) = k
    /\ \A k \in NewEventTypes :
         (new_to_old(TRUE, k) = NoValue) <=> k \in UnmappedNewKinds

\* the step, a hybrid log_event call, leaves the legacy stack alone
LegacySkipped ==
    /\ ~last'.old_called
    /\ last'.raised = NoValue
    /\ coroutines' = coroutines
    /\ comparison_stats'.events_logged_old = comparison_stats.events_logged_old
    /\ comparison_stats'.performance_old = comparison_stats.performance_old
    /\ comparison_stats'.errors_old = comparison_stats.errors_old

\* C29, as stated: the event-kind mapping is a bijection on the mapped
\* kinds; system start, system shutdown, memory warning and CPU warning
\* map to no legacy kind; a hybrid log_event call with one of them skips
\* the legacy stack, raises nothing and increments no error counter
C29_UnmappedKindCountsNoError ==
    [][ /\ MappingBijection
        /\ (IsHybridLogCall /\ last'.event_type \in UnmappedNewKinds) =>
             /\ LegacySkipped
             /\ comparison_stats'.errors_new = comparison_stats.errors_new
      ]_vars

\* C29, amended: the event-kind mapping is a bijection on the mapped kinds
\* (the round trip through old_to_new and new_to_old returns every legacy
\* kind, and the round trip through new_to_old and old_to_new returns every
\* new kind that has a legacy counterpart); system start, system shutdown,
\* memory warning and CPU warning map to no legacy kind; a hybrid log_event
\* call with one of them does not call the legacy stack, raises nothing and
\* leaves the legacy counters alone; the error counter of the optimized
\* stack grows by one exactly when comparison mode is on and the optimized
\* stack rejected the keyword arguments of the call
C29_MappingBijectionAndSkip ==
    [][ /\ MappingBijection
        /\ (IsHybridLogCall /\ last'.event_type \in UnmappedNewKinds) =>
             /\ LegacySkipped
             /\ comparison_stats'.errors_new = comparison_stats.errors_new +
                  (IF /\ hybrid.use_new_system /\ hybrid.compare_systems
                      /\ ~(last'.kwargs \subseteq Attributes)
                   THEN 1 ELSE 0)
      ]_vars

\* an unmapped kind was logged through a comparing hybrid with both stacks:
\* the optimized stack took it and counted it, the legacy stack was skipped
C29_UnmappedKindSkippedLegacy ==
    /\ last.call = "hybrid_log_event"
    /\ last.event_type \in UnmappedNewKinds
    /\ hybrid.use_new_system /\ hybrid.use_old_system /\ hybrid.old_available
    /\ hybrid.compare_systems
    /\ last.new_called /\ ~last.old_called
    /\ comparison_stats.events_logged_new > comparison_stats.events_logged_old


----------------------------------------------------------------------------
\* C30: get_monitoring_system() succeeds for every environment
\* configuration, builds the global HybridMonitoringSystem from that
\* configuration on its first call and returns the same instance afterwards,
\* and the drop-in functions log_analysis_event, track_analysis_operation,
\* get_system_health and get_analytics_summary operate on that instance
C30_OneGlobalInstance ==
    last.call \in {"get_monitoring_system"} \cup DropInFunctions =>
        /\ last.raised = NoValue
        /\ global_monitoring_system # <<>>
        /\ last.system = global_monitoring_system
        /\ LET cfg == get_monitoring_config(environ)
               system == global_monitoring_system[1]
           IN /\ system.use_new_system = cfg.use_new_system
              /\ system.use_old_system =
                     (cfg.use_old_system /\ hybrid.old_available)
              /\ system.compare_systems = cfg.compare_systems

====
